---- MODULE Spec2Model ----
(***************************************************************************)
(* Storage-backed CRUD layer of the task / note popup extension:           *)
(* StorageManager (key-value wrapper over chrome.storage.local),           *)
(* TaskManager, NoteManager and the popup's task handlers.                 *)
(*                                                                         *)
(* Every asynchronous operation is split at its awaits: the store read     *)
(* lands (Load), the synchronous continuation runs (Compute: clock read,   *)
(* id generation, in-memory transform), the store write lands (Write).     *)
(* Several execution contexts share the one store.                         *)
(***************************************************************************)
EXTENDS Integers, Sequences, FiniteSets, TLC

VARIABLES
    store,      \* chrome.storage.local: key -> [present, val]
    now,        \* wall clock (Date.now()), non-decreasing
    nextId,     \* crypto.randomUUID(): next value never returned before
    pc,         \* per context: position of its current manager operation
    call,       \* per context: the operation and its arguments
    local,      \* per context: the collection held in memory (const tasks / notes)
    pend,       \* per context: the value the operation returns once its write resolves
    result,     \* per context: how the operation ended (value or thrown error)
    io,         \* per context: store calls issued by the current operation
    fault,      \* per context: underlying store failure met by the current operation
    missed,     \* per context: what landed in the store after this context's read
                \* (stale: some write of another context; ids: the ids those writes created)
    hpc,        \* per popup handler execution: position
    hcall,      \* per popup handler execution: the event being handled
    hlocal,     \* per popup handler execution: the tasks array it holds
    hout,       \* per popup handler execution: how it ended (done, or the alert shown)
    rendered,   \* popup DOM: ids of the list items renderTasks produced
    nops,       \* operations and events issued so far
    trail,      \* the calls that returned to the single caller, with their results, in order
    hook,       \* BackgroundService.handleInstalled: position, reason and outcome
    loading     \* UserNotificationSystem: the loading container and its listeners

vars == <<store, now, nextId, pc, call, local, pend, result, io, fault, missed,
          hpc, hcall, hlocal, hout, rendered, nops, trail, hook, loading>>
ctxVars == <<pc, call, local, pend, result, io, fault, missed>>
popupVars == <<hpc, hcall, hlocal, hout, rendered>>

(***************************************************************************)
(* Bounds of the model.                                                    *)
(***************************************************************************)
NumContexts == 2
MaxTime == 2
MaxId == 3
NumHandlers == 2
MaxOps == 5
MaxMixedOps == 4
MaxRaceOps == 3
MaxPopupOps == 4
MaxSeqOps == 3
MaxStorageOps == 3
MaxInstallOps == 3
MaxVideoOps == 3
MaxDateOps == 2
MaxSettingsOps == 3
MaxMessageOps == 3
MaxFirstRunOps == 3
MaxComponentOps == 3
MaxNoteInitOps == 4
MaxOptionsOps == 4
MaxLoadingOps == 7

Contexts == 1..NumContexts
Handlers == 1..NumHandlers
Ids == 1..MaxId
\* `!id` holds: undefined, null or ''
NoId == 0
\* an id a caller puts into its data; the generator never yields it
OtherId == 99

(***************************************************************************)
(* JavaScript values.  An object is a function from field names to values; *)
(* the non-object values carry their typeof in jsType.                     *)
(***************************************************************************)
JsNull == [jsType |-> "null"]
JsUndefined == [jsType |-> "undefined"]
JsString == [jsType |-> "string"]
JsBool(b) == [jsType |-> "boolean", v |-> b]
JsNotBool == [jsType |-> "number"]

IsObj(v) == "jsType" \notin DOMAIN v
Falsy(v) == ~IsObj(v) /\ v.jsType \in {"null", "undefined"}
TypeofObject(v) == IsObj(v) \/ v.jsType = "null"
IsBoolean(v) == ~IsObj(v) /\ v.jsType = "boolean"
Has(obj, f) == IsObj(obj) /\ f \in DOMAIN obj
\* {...a, ...b}
Spread(a, b) == [f \in DOMAIN a \cup DOMAIN b |-> IF f \in DOMAIN b THEN b[f] ELSE a[f]]
\* the own enumerable properties a spread copies from v
Props(v) == IF IsObj(v) THEN v ELSE IF v.jsType = "string" THEN [char0 |-> "x"] ELSE <<>>

EmptyStr == ""
NullDate == "null"

(***************************************************************************)
(* StorageManager                                                          *)
(***************************************************************************)
K_TASKS == "marketingProductivityExtension_tasks"
K_NOTES == "marketingProductivityExtension_notes"
K_SETTINGS == "marketingProductivityExtension_settings"
\* the keys BackgroundService reads and writes
B_TASKS == "tasks"
B_NOTES == "notes"
B_SETTINGS == "settings"
B_VIDEOS == "youtubeVideos"
\* the property name an undefined key turns into: { [undefined]: value }
K_UNDEFINED == "undefined"
\* keys that hold an object (a set of <<field, value>> pairs), the others hold arrays
ObjectKeys == {K_SETTINGS, B_SETTINGS}
StoreKeys == {K_TASKS, K_NOTES, K_SETTINGS, B_TASKS, B_NOTES, B_SETTINGS, B_VIDEOS, K_UNDEFINED}

Absent == [present |-> FALSE, val |-> <<>>]
AbsentObject == [present |-> FALSE, val |-> {}]
AbsentAt(k) == IF k \in ObjectKeys THEN AbsentObject ELSE Absent
Stored(v) == [present |-> TRUE, val |-> v]
EmptyStore == [k \in StoreKeys |-> AbsentAt(k)]

getItemNull(st, key, defaultValue) == IF st[key].present THEN st[key] ELSE Absent
\* result[key] !== undefined ? result[key] : defaultValue
getItem(st, key, defaultValue) == IF st[key].present THEN st[key] ELSE defaultValue

setItemMerging(st, key, value) ==
    [st EXCEPT ![key] = Stored(IF st[key].present
                               THEN st[key].val \o SelectSeq(value,
                                        LAMBDA e : \A i \in 1..Len(st[key].val) : st[key].val[i].id # e.id)
                               ELSE value)]
\* chrome.storage.local.set({ [key]: value })
setItem(st, key, value) == [st EXCEPT ![key] = Stored(value)]

\* chrome.storage.local.remove(key)
removeItem(st, key) == [st EXCEPT ![key] = AbsentAt(key)]
\* chrome.storage.local.clear()
clearAll(st) == [k \in DOMAIN st |-> AbsentAt(k)]

getAllTasks(st) == getItem(st, K_TASKS, Stored(<<>>))
saveAllTasks(st, tasks) == setItem(st, K_TASKS, tasks)
getAllNotes(st) == getItem(st, K_NOTES, Stored(<<>>))
saveAllNotes(st, notes) == setItem(st, K_NOTES, notes)
\* {}: the object without properties
EmptyObject == {}
getSettings(st) == getItem(st, K_SETTINGS, Stored(EmptyObject))
saveSettings(st, settings) == setItem(st, K_SETTINGS, settings)

\* ways chrome.storage.local rejects a call
ReadFaults == {"unavailable"}
WriteFaults == {"unavailable", "quota"}

(***************************************************************************)
(* Sequence helpers (Array.prototype.findIndex / filter / map)             *)
(***************************************************************************)
IdsOf(seq) == {seq[i].id : i \in 1..Len(seq)}
\* first index whose element has the id, 0 for -1
findIndex(seq, id) ==
    IF \E i \in 1..Len(seq) : seq[i].id = id
    THEN CHOOSE i \in 1..Len(seq) : seq[i].id = id /\ \A j \in 1..(i - 1) : seq[j].id # id
    ELSE 0
filterOut(seq, id) == SelectSeq(seq, LAMBDA e : e.id # id)

(***************************************************************************)
(* Results of an operation                                                 *)
(***************************************************************************)
NoResult == [kind |-> "none"]
Returned(v) == [kind |-> "ok", val |-> v]
Threw(k) == [kind |-> k]
\* new StorageError(message, originalError)
StorageError(cause) == [kind |-> "StorageError", originalError |-> cause]
RetNull == Returned([t |-> "null"])
RetBool(b) == Returned([t |-> "bool", v |-> b])
RetEntity(e) == Returned([t |-> "entity", v |-> e])
RetList(l) == Returned([t |-> "list", v |-> l])

(***************************************************************************)
(* TaskManager                                                             *)
(***************************************************************************)
TMOps == {"createTask", "getTaskById", "getAllTasks", "updateTask", "deleteTask",
          "markTaskStatus", "addSubtask", "deleteSubtask", "markSubtaskStatus"}

Call(op, id, sid, data, flag) == [op |-> op, id |-> id, sid |-> sid, data |-> data, flag |-> flag]
NoCall == Call("none", NoId, NoId, JsUndefined, JsUndefined)

\* !data.title
TitleFalsy(data) == ~Has(data, "title") \/ data.title = EmptyStr

TMInvalidLax(cl) ==
    CASE cl.op = "createTask" ->
            Falsy(cl.data) \/ ~TypeofObject(cl.data) \/ TitleFalsy(cl.data)
      [] cl.op \in {"getTaskById", "deleteTask"} -> cl.id = NoId
      [] cl.op = "getAllTasks" -> FALSE
      [] cl.op = "updateTask" -> cl.id = NoId \/ ~TypeofObject(cl.data)
      [] cl.op = "markTaskStatus" -> cl.id = NoId \/ ~IsBoolean(cl.flag)
      [] cl.op = "addSubtask" ->
            cl.id = NoId \/ Falsy(cl.data) \/ ~TypeofObject(cl.data) \/ TitleFalsy(cl.data)
      [] cl.op = "deleteSubtask" -> cl.id = NoId \/ cl.sid = NoId
      [] cl.op = "markSubtaskStatus" ->
            cl.id = NoId \/ cl.sid = NoId \/ ~IsBoolean(cl.flag)
\* the guard clauses that throw InvalidInputError
TMInvalid(cl) ==
    CASE cl.op = "createTask" ->
            Falsy(cl.data) \/ ~TypeofObject(cl.data) \/ TitleFalsy(cl.data)
      [] cl.op = "getTaskById" -> cl.id = NoId
      [] cl.op = "getAllTasks" -> FALSE
      [] cl.op = "updateTask" ->
            cl.id = NoId \/ ~TypeofObject(cl.data) \/ cl.data = JsNull
      [] cl.op = "deleteTask" -> cl.id = NoId
      [] cl.op = "markTaskStatus" -> cl.id = NoId \/ ~IsBoolean(cl.flag)
      [] cl.op = "addSubtask" ->
            cl.id = NoId \/ Falsy(cl.data) \/ ~TypeofObject(cl.data) \/ TitleFalsy(cl.data)
      [] cl.op = "deleteSubtask" -> cl.id = NoId \/ cl.sid = NoId
      [] cl.op = "markSubtaskStatus" ->
            cl.id = NoId \/ cl.sid = NoId \/ ~IsBoolean(cl.flag)

\* what a continuation decides: return at once, or write doc and then return ret
Finish(ret) == [write |-> FALSE, doc |-> <<>>, ret |-> ret, fresh |-> FALSE]
WriteThen(doc, ret, fresh) == [write |-> TRUE, doc |-> doc, ret |-> ret, fresh |-> fresh]

newTask(data, id, t) ==
    [id |-> id,
     title |-> data.title,
     description |-> IF Has(data, "description") /\ data.description # EmptyStr
                     THEN data.description ELSE EmptyStr,
     dueDate |-> IF Has(data, "dueDate") /\ data.dueDate # EmptyStr
                 THEN data.dueDate ELSE NullDate,
     isComplete |-> FALSE,
     createdAt |-> t,
     updatedAt |-> t,
     subtasks |-> <<>>]

createTaskCountingId(tasks, data, id, t) ==
    WriteThen(Append(tasks, newTask(data, Len(tasks) + 1, t)),
              RetEntity(newTask(data, Len(tasks) + 1, t)), TRUE)
createTaskPrepending(tasks, data, id, t) ==
    WriteThen(<<newTask(data, id, t)>> \o tasks, RetEntity(newTask(data, id, t)), TRUE)
createTask(tasks, data, id, t) ==
    WriteThen(Append(tasks, newTask(data, id, t)), RetEntity(newTask(data, id, t)), TRUE)

getTaskById(tasks, id) ==
    IF findIndex(tasks, id) = 0 THEN Finish(RetNull)
    ELSE Finish(RetEntity(tasks[findIndex(tasks, id)]))

mergeTaskStampFirst(task, newData, t) ==
    Spread(Spread(Spread(task, [updatedAt |-> t]), Props(newData)),
           [id |-> task.id, subtasks |-> task.subtasks])
mergeTaskUnpinned(task, newData, t) ==
    Spread(Spread(task, [updatedAt |-> t]), Props(newData))
\* {...task, ...newData, id: task.id, subtasks: task.subtasks, updatedAt: Date.now()}
mergeTask(task, newData, t) ==
    Spread(Spread(task, Props(newData)),
           [id |-> task.id, subtasks |-> task.subtasks, updatedAt |-> t])

updateTaskUpserting(tasks, id, newData, t) ==
    LET taskIndex == findIndex(tasks, id) IN
    IF taskIndex = 0
    THEN WriteThen(Append(tasks, newTask(newData, id, t)), RetEntity(newTask(newData, id, t)), FALSE)
    ELSE LET updatedTask == mergeTask(tasks[taskIndex], newData, t) IN
         WriteThen([tasks EXCEPT ![taskIndex] = updatedTask], RetEntity(updatedTask), FALSE)
updateTask(tasks, id, newData, t) ==
    LET taskIndex == findIndex(tasks, id) IN
    IF taskIndex = 0 THEN Finish(RetNull)
    ELSE LET updatedTask == mergeTask(tasks[taskIndex], newData, t) IN
         WriteThen([tasks EXCEPT ![taskIndex] = updatedTask], RetEntity(updatedTask), FALSE)

deleteTaskSavingLoaded(tasks, id) ==
    IF Len(filterOut(tasks, id)) = Len(tasks) THEN Finish(RetBool(FALSE))
    ELSE WriteThen(tasks, RetBool(TRUE), FALSE)
deleteTaskUnchecked(tasks, id) == WriteThen(filterOut(tasks, id), RetBool(TRUE), FALSE)
deleteTask(tasks, id) ==
    LET filteredTasks == filterOut(tasks, id) IN
    IF Len(filteredTasks) = Len(tasks) THEN Finish(RetBool(FALSE))
    ELSE WriteThen(filteredTasks, RetBool(TRUE), FALSE)

markTaskStatusRetitling(tasks, id, flag, t) ==
    updateTask(tasks, id, [isComplete |-> flag.v, title |-> "done"], t)
markTaskStatus(tasks, id, flag, t) == updateTask(tasks, id, [isComplete |-> flag.v], t)

newSubtask(data, id, t) ==
    [id |-> id, title |-> data.title, isComplete |-> FALSE, createdAt |-> t, updatedAt |-> t]

addSubtaskSavingParent(tasks, taskId, data, id, t) ==
    LET taskIndex == findIndex(tasks, taskId) IN
    IF taskIndex = 0 THEN Finish(RetNull)
    ELSE WriteThen(<<[tasks[taskIndex] EXCEPT !.subtasks = Append(@, newSubtask(data, id, t)),
                                              !.updatedAt = t]>>,
                   RetEntity(newSubtask(data, id, t)), TRUE)
addSubtaskKeepingStamp(tasks, taskId, data, id, t) ==
    LET taskIndex == findIndex(tasks, taskId) IN
    IF taskIndex = 0 THEN Finish(RetNull)
    ELSE WriteThen([tasks EXCEPT ![taskIndex] =
                        [@ EXCEPT !.subtasks = Append(@, newSubtask(data, id, t))]],
                   RetEntity(newSubtask(data, id, t)), TRUE)
addSubtaskPrepending(tasks, taskId, data, id, t) ==
    LET taskIndex == findIndex(tasks, taskId) IN
    IF taskIndex = 0 THEN Finish(RetNull)
    ELSE WriteThen([tasks EXCEPT ![taskIndex] =
                        [@ EXCEPT !.subtasks = <<newSubtask(data, id, t)>> \o @,
                                  !.updatedAt = t]],
                   RetEntity(newSubtask(data, id, t)), TRUE)
addSubtask(tasks, taskId, data, id, t) ==
    LET taskIndex == findIndex(tasks, taskId) IN
    IF taskIndex = 0 THEN Finish(RetNull)
    ELSE WriteThen([tasks EXCEPT ![taskIndex] =
                        [@ EXCEPT !.subtasks = Append(@, newSubtask(data, id, t)),
                                  !.updatedAt = t]],
                   RetEntity(newSubtask(data, id, t)), TRUE)

deleteSubtaskUnstamped(tasks, taskId, subtaskId, t) ==
    LET taskIndex == findIndex(tasks, taskId) IN
    IF taskIndex = 0 THEN Finish(RetBool(FALSE))
    ELSE LET remaining == filterOut(tasks[taskIndex].subtasks, subtaskId) IN
         IF Len(remaining) = Len(tasks[taskIndex].subtasks) THEN Finish(RetBool(FALSE))
         ELSE WriteThen([tasks EXCEPT ![taskIndex] = [@ EXCEPT !.subtasks = remaining]],
                        RetBool(TRUE), FALSE)
deleteSubtaskSavingFiltered(tasks, taskId, subtaskId, t) ==
    LET taskIndex == findIndex(tasks, taskId) IN
    IF taskIndex = 0 THEN Finish(RetBool(FALSE))
    ELSE LET remaining == filterOut(tasks[taskIndex].subtasks, subtaskId) IN
         IF Len(remaining) = Len(tasks[taskIndex].subtasks)
         THEN WriteThen([tasks EXCEPT ![taskIndex] =
                            [@ EXCEPT !.subtasks = remaining, !.updatedAt = t]],
                        RetBool(FALSE), FALSE)
         ELSE WriteThen([tasks EXCEPT ![taskIndex] =
                            [@ EXCEPT !.subtasks = remaining, !.updatedAt = t]],
                        RetBool(TRUE), FALSE)
deleteSubtask(tasks, taskId, subtaskId, t) ==
    LET taskIndex == findIndex(tasks, taskId) IN
    IF taskIndex = 0 THEN Finish(RetBool(FALSE))
    ELSE LET remaining == filterOut(tasks[taskIndex].subtasks, subtaskId) IN
         IF Len(remaining) = Len(tasks[taskIndex].subtasks) THEN Finish(RetBool(FALSE))
         ELSE WriteThen([tasks EXCEPT ![taskIndex] =
                             [@ EXCEPT !.subtasks = remaining, !.updatedAt = t]],
                        RetBool(TRUE), FALSE)

markSubtaskStatusStampingCreation(tasks, taskId, subtaskId, flag, t) ==
    LET taskIndex == findIndex(tasks, taskId) IN
    IF taskIndex = 0 THEN Finish(RetNull)
    ELSE LET subtaskIndex == findIndex(tasks[taskIndex].subtasks, subtaskId) IN
         IF subtaskIndex = 0 THEN Finish(RetNull)
         ELSE LET sub == [tasks[taskIndex].subtasks[subtaskIndex]
                             EXCEPT !.isComplete = flag.v, !.updatedAt = tasks[taskIndex].subtasks[subtaskIndex].createdAt] IN
              WriteThen([tasks EXCEPT ![taskIndex] =
                             [@ EXCEPT !.subtasks = [@ EXCEPT ![subtaskIndex] = sub],
                                       !.updatedAt = tasks[taskIndex].createdAt]],
                        RetEntity(sub), FALSE)
markSubtaskStatusStampingSubtaskOnly(tasks, taskId, subtaskId, flag, t) ==
    LET taskIndex == findIndex(tasks, taskId) IN
    IF taskIndex = 0 THEN Finish(RetNull)
    ELSE LET subtaskIndex == findIndex(tasks[taskIndex].subtasks, subtaskId) IN
         IF subtaskIndex = 0 THEN Finish(RetNull)
         ELSE LET sub == [tasks[taskIndex].subtasks[subtaskIndex]
                             EXCEPT !.isComplete = flag.v, !.updatedAt = t] IN
              WriteThen([tasks EXCEPT ![taskIndex] =
                             [@ EXCEPT !.subtasks = [@ EXCEPT ![subtaskIndex] = sub]]],
                        RetEntity(sub), FALSE)
markSubtaskStatus(tasks, taskId, subtaskId, flag, t) ==
    LET taskIndex == findIndex(tasks, taskId) IN
    IF taskIndex = 0 THEN Finish(RetNull)
    ELSE LET subtaskIndex == findIndex(tasks[taskIndex].subtasks, subtaskId) IN
         IF subtaskIndex = 0 THEN Finish(RetNull)
         ELSE LET sub == [tasks[taskIndex].subtasks[subtaskIndex]
                             EXCEPT !.isComplete = flag.v, !.updatedAt = t] IN
              WriteThen([tasks EXCEPT ![taskIndex] =
                             [@ EXCEPT !.subtasks = [@ EXCEPT ![subtaskIndex] = sub],
                                       !.updatedAt = t]],
                        RetEntity(sub), FALSE)

\* the synchronous continuation of a TaskManager operation after its read resolved
TMContinue(cl, tasks, id, t) ==
    CASE cl.op = "createTask" -> createTask(tasks, cl.data, id, t)
      [] cl.op = "getTaskById" -> getTaskById(tasks, cl.id)
      [] cl.op = "getAllTasks" -> Finish(RetList(tasks))
      [] cl.op = "updateTask" -> updateTask(tasks, cl.id, cl.data, t)
      [] cl.op = "deleteTask" -> deleteTask(tasks, cl.id)
      [] cl.op = "markTaskStatus" -> markTaskStatus(tasks, cl.id, cl.flag, t)
      [] cl.op = "addSubtask" -> addSubtask(tasks, cl.id, cl.data, id, t)
      [] cl.op = "deleteSubtask" -> deleteSubtask(tasks, cl.id, cl.sid, t)
      [] cl.op = "markSubtaskStatus" -> markSubtaskStatus(tasks, cl.id, cl.sid, cl.flag, t)

(***************************************************************************)
(* NoteManager                                                             *)
(***************************************************************************)
NMOps == {"createNote", "getNoteById", "getAllNotes", "updateNote", "deleteNote"}

\* the guard clauses that throw a plain Error
NMInvalid(cl) ==
    CASE cl.op = "createNote" -> Falsy(cl.data)
      [] cl.op = "getNoteById" -> cl.id = NoId
      [] cl.op = "getAllNotes" -> FALSE
      [] cl.op = "updateNote" -> cl.id = NoId \/ Falsy(cl.data)
      [] cl.op = "deleteNote" -> cl.id = NoId

\* {...noteData, id: crypto.randomUUID(), createdAt: Date.now(), updatedAt: Date.now()}
newNote(data, id, t) == Spread(Props(data), [id |-> id, createdAt |-> t, updatedAt |-> t])

createNote(notes, data, id, t) ==
    WriteThen(Append(notes, newNote(data, id, t)), RetEntity(newNote(data, id, t)), TRUE)

getNoteById(notes, id) ==
    IF findIndex(notes, id) = 0 THEN Finish(RetNull)
    ELSE Finish(RetEntity(notes[findIndex(notes, id)]))

mergeNoteUnpinned(note, newData, t) ==
    Spread(Spread(note, [updatedAt |-> t]), Props(newData))
\* {...note, ...newData, id: note.id, updatedAt: Date.now()}
mergeNoteKeepingStamp(note, newData, t) ==
    Spread(Spread(note, Props(newData)), [id |-> note.id])
mergeNote(note, newData, t) ==
    Spread(Spread(note, Props(newData)), [id |-> note.id, updatedAt |-> t])

updateNote(notes, id, newData, t) ==
    IF \A i \in 1..Len(notes) : notes[i].id # id THEN Finish(RetNull)
    ELSE WriteThen([i \in 1..Len(notes) |->
                        IF notes[i].id = id THEN mergeNote(notes[i], newData, t) ELSE notes[i]],
                   \* updatedNote holds the last note the map callback matched
                   RetEntity(mergeNote(
                       notes[CHOOSE i \in 1..Len(notes) :
                                 notes[i].id = id /\ \A j \in (i + 1)..Len(notes) : notes[j].id # id],
                       newData, t)),
                   FALSE)

deleteNote(notes, id) ==
    LET filteredNotes == filterOut(notes, id) IN
    IF Len(filteredNotes) = Len(notes) THEN Finish(RetBool(FALSE))
    ELSE WriteThen(filteredNotes, RetBool(TRUE), FALSE)

\* the synchronous continuation of a NoteManager operation after its read resolved
NMContinue(cl, notes, id, t) ==
    CASE cl.op = "createNote" -> createNote(notes, cl.data, id, t)
      [] cl.op = "getNoteById" -> getNoteById(notes, cl.id)
      [] cl.op = "getAllNotes" -> Finish(RetList(notes))
      [] cl.op = "updateNote" -> updateNote(notes, cl.id, cl.data, t)
      [] cl.op = "deleteNote" -> deleteNote(notes, cl.id)

(***************************************************************************)
(* Arguments the callers pass                                              *)
(***************************************************************************)
JunkSubtask == [id |-> OtherId, title |-> "x", isComplete |-> TRUE, createdAt |-> 0, updatedAt |-> 0]
IdArgs == {NoId} \cup Ids
TaskDatas == {JsNull, JsString, [title |-> EmptyStr], [title |-> "a"]}
PartialFields == {JsNull, JsString,
                  [id |-> OtherId, subtasks |-> <<JunkSubtask>>, title |-> "b",
                   createdAt |-> 0, updatedAt |-> 0]}
Flags == {JsBool(TRUE), JsBool(FALSE), JsNotBool}

TMCalls ==
    {Call("createTask", NoId, NoId, d, JsUndefined) : d \in TaskDatas}
    \cup {Call(op, i, NoId, JsUndefined, JsUndefined) : op \in {"getTaskById", "deleteTask"}, i \in IdArgs}
    \cup {Call("getAllTasks", NoId, NoId, JsUndefined, JsUndefined)}
    \cup {Call("updateTask", i, NoId, d, JsUndefined) : i \in IdArgs, d \in PartialFields}
    \cup {Call("markTaskStatus", i, NoId, JsUndefined, f) : i \in IdArgs, f \in Flags}
    \cup {Call("addSubtask", i, NoId, d, JsUndefined) : i \in IdArgs, d \in TaskDatas}
    \cup {Call("deleteSubtask", i, s, JsUndefined, JsUndefined) : i \in IdArgs, s \in IdArgs}
    \cup {Call("markSubtaskStatus", i, s, JsUndefined, f) : i \in IdArgs, s \in IdArgs, f \in Flags}

NoteDatas == {JsNull, JsString, [id |-> OtherId, title |-> "n", content |-> EmptyStr]}
NotePartials == {JsNull, [id |-> OtherId, title |-> "m"]}

NMCalls ==
    {Call("createNote", NoId, NoId, d, JsUndefined) : d \in NoteDatas}
    \cup {Call(op, i, NoId, JsUndefined, JsUndefined) : op \in {"getNoteById", "deleteNote"}, i \in IdArgs}
    \cup {Call("getAllNotes", NoId, NoId, JsUndefined, JsUndefined)}
    \cup {Call("updateNote", i, NoId, d, JsUndefined) : i \in IdArgs, d \in NotePartials}

(***************************************************************************)
(* Dispatch on the manager an operation belongs to                         *)
(***************************************************************************)
IsTM(cl) == cl.op \in TMOps
KeyOf(cl) == IF IsTM(cl) THEN K_TASKS ELSE K_NOTES
Invalid(cl) == IF IsTM(cl) THEN TMInvalid(cl) ELSE NMInvalid(cl)
\* throw new InvalidInputError(...)
TMInvalidThrows == Threw("InvalidInputError")
\* throw new Error(...)
NMInvalidThrows == Threw("Error")
InvalidThrows(cl) == IF IsTM(cl) THEN TMInvalidThrows ELSE NMInvalidThrows
TMFaultThrowsBare(f) == [kind |-> "StorageError", originalError |-> "none"]
\* _getTasks / _saveTasks: catch (error) { throw new StorageError(msg, error) }
TMFaultThrows(f) == StorageError(f)
\* the note functions have no catch; getItem / setItem rethrow the rejection as it is
NMFaultThrows(f) == [kind |-> "StoreRejection", cause |-> f]
\* what reaches the caller when the store call rejects with f
FaultThrows(cl, f) == IF IsTM(cl) THEN TMFaultThrows(f) ELSE NMFaultThrows(f)
LoadAll(cl, st) == IF IsTM(cl) THEN getAllTasks(st) ELSE getAllNotes(st)
SaveAll(cl, st, coll) == IF IsTM(cl) THEN saveAllTasks(st, coll) ELSE saveAllNotes(st, coll)
Continue(cl, coll, id, t) ==
    IF IsTM(cl) THEN TMContinue(cl, coll, id, t) ELSE NMContinue(cl, coll, id, t)
Generates(cl) == cl.op \in {"createTask", "addSubtask", "createNote"}

NoIo == [reads |-> 0, writes |-> 0]
NoneMissed == [stale |-> FALSE, ids |-> {}]
InFlight(c) == pc[c] \in {"loading", "loaded"}

(***************************************************************************)
(* Popup: task form and task list handlers                                 *)
(***************************************************************************)
\* String.prototype.trim on a text given as its sequence of characters
RECURSIVE trimStart(_)
trimStart(text) == IF text # <<>> /\ Head(text) = " " THEN trimStart(Tail(text)) ELSE text
RECURSIVE trimEnd(_)
trimEnd(text) ==
    IF text # <<>> /\ text[Len(text)] = " " THEN trimEnd(SubSeq(text, 1, Len(text) - 1)) ELSE text
trim(text) == trimEnd(trimStart(text))

\* isValidText(text, min) with max left out: Number.MAX_SAFE_INTEGER
isValidText(text, min) == Len(trim(text)) >= (IF min >= 0 THEN min ELSE 0)

\* getItem(key) without a default: null when the key holds nothing
NullItem == Absent

InputTexts == {<<" ">>, <<"m">>}
PopupEvents ==
    {Call("submit", NoId, NoId, [value |-> v], JsUndefined) : v \in InputTexts}
    \cup {Call("click", i, NoId, [action |-> a], JsBool(b)) :
            i \in rendered, a \in {"toggle-complete", "delete-task", "none"}, b \in {TRUE}}

HandlerNeedsId(h) == hpc[h] \in {"loading", "loaded"} /\ hcall[h].op = "submit"
\* fresh ids the operations under way will still ask for
IdsAwaited ==
    Cardinality({d \in Contexts : InFlight(d) /\ Generates(call[d])})
    + Cardinality({h \in Handlers : HandlerNeedsId(h)})

popupTask(content, id, t) == [id |-> id, content |-> content, completed |-> FALSE, timestamp |-> t]

\* an event reaches its listener: the code up to the first await
HBegin(h, ev) ==
    /\ hpc[h] = "idle"
    /\ ev.op = "submit" => nextId + IdsAwaited <= MaxId
    /\ hcall' = [hcall EXCEPT ![h] = ev]
    /\ nops' = nops + 1
    /\ IF ev.op = "submit" /\ ~isValidText(trim(ev.data.value), 1)
       THEN /\ hpc' = [hpc EXCEPT ![h] = "done"]
            /\ hout' = [hout EXCEPT ![h] = "alert:taskContentRequired"]
       ELSE /\ hpc' = [hpc EXCEPT ![h] = "loading"]
            /\ hout' = hout
    /\ UNCHANGED <<store, now, nextId, ctxVars, hlocal, rendered, trail, hook, loading>>

FailureAlert(ev) == IF ev.op = "submit" THEN "alert:addTaskFailed" ELSE "alert:updateTaskFailed"

\* StorageManager.getItem(STORAGE_KEYS.TASKS) resolves or rejects
HLoad(h) ==
    /\ hpc[h] = "loading"
    /\ \E f \in ReadFaults \cup {"none"} :
         IF f = "none"
         THEN /\ hlocal' = [hlocal EXCEPT ![h] = getItem(store, K_TASKS, NullItem)]
              /\ hpc' = [hpc EXCEPT ![h] = "loaded"]
              /\ hout' = hout
         ELSE /\ hpc' = [hpc EXCEPT ![h] = "done"]
              /\ hout' = [hout EXCEPT ![h] = FailureAlert(hcall[h])]
              /\ hlocal' = hlocal
    /\ UNCHANGED <<store, now, nextId, ctxVars, hcall, rendered, nops, trail, hook, loading>>

\* the handler's continuation: change the array in memory and issue setItem
HCompute(h) ==
    /\ hpc[h] = "loaded"
    /\ LET ev == hcall[h]
           tasks == hlocal[h].val
       IN
       IF ev.op = "click" /\ ev.data.action = "none"
       THEN \* clicked on something else within the list item: return
            /\ hpc' = [hpc EXCEPT ![h] = "done"]
            /\ hout' = [hout EXCEPT ![h] = "returned"]
            /\ UNCHANGED <<hlocal, nextId>>
       ELSE IF ~hlocal[h].present
       THEN \* tasks is null: push / map / filter throw a TypeError, caught below
            /\ hpc' = [hpc EXCEPT ![h] = "done"]
            /\ hout' = [hout EXCEPT ![h] = FailureAlert(ev)]
            /\ UNCHANGED <<hlocal, nextId>>
       ELSE /\ hpc' = [hpc EXCEPT ![h] = "saving"]
            /\ hout' = hout
            /\ hlocal' = [hlocal EXCEPT ![h].val =
                  CASE ev.op = "submit" ->
                          Append(tasks, popupTask(trim(ev.data.value), nextId, now))
                    [] ev.op = "click" /\ ev.data.action = "toggle-complete" ->
                          [i \in 1..Len(tasks) |->
                              IF tasks[i].id = ev.id
                              THEN Spread(tasks[i], [completed |-> ev.flag.v])
                              ELSE tasks[i]]
                    [] ev.op = "click" /\ ev.data.action = "delete-task" ->
                          filterOut(tasks, ev.id)]
            /\ nextId' = IF ev.op = "submit" THEN nextId + 1 ELSE nextId
    /\ UNCHANGED <<store, now, ctxVars, hcall, rendered, nops, trail, hook, loading>>

\* StorageManager.setItem resolves (then renderTasks) or rejects (then the alert)
HWrite(h) ==
    /\ hpc[h] = "saving"
    /\ \E f \in WriteFaults \cup {"none"} :
         IF f = "none"
         THEN /\ store' = setItem(store, K_TASKS, hlocal[h].val)
              /\ rendered' = IdsOf(hlocal[h].val)
              /\ hout' = [hout EXCEPT ![h] = "rendered"]
         ELSE /\ hout' = [hout EXCEPT ![h] = FailureAlert(hcall[h])]
              /\ UNCHANGED <<store, rendered>>
    /\ hpc' = [hpc EXCEPT ![h] = "done"]
    /\ UNCHANGED <<now, nextId, ctxVars, hcall, hlocal, nops, trail, hook, loading>>

\* the handler execution is over
HReturn(h) ==
    /\ hpc[h] = "done"
    /\ hpc' = [hpc EXCEPT ![h] = "idle"]
    /\ hcall' = [hcall EXCEPT ![h] = NoCall]
    /\ hlocal' = [hlocal EXCEPT ![h] = Absent]
    /\ hout' = [hout EXCEPT ![h] = "none"]
    /\ UNCHANGED <<store, now, nextId, ctxVars, rendered, nops, trail, hook, loading>>

\* the popup is opened: init -> refreshData -> renderTasks(tasks)
OpenPopup ==
    /\ \A h \in Handlers : hpc[h] = "idle"
    /\ rendered' = IF store[K_TASKS].present THEN IdsOf(store[K_TASKS].val) ELSE {}
    /\ rendered' # rendered
    /\ UNCHANGED <<store, now, nextId, ctxVars, hpc, hcall, hlocal, hout, nops, trail, hook, loading>>

(***************************************************************************)
(* Popup: YouTube embed form and video list handlers                       *)
(***************************************************************************)
\* A URL text is the sequence of its pieces: scheme, host, path pieces
NoMatch == "null"
HttpSchemes == {"http://", "https://"}
UrlHosts == {"youtu.be/", "youtube.com/", "www.youtube.com/", "m.youtube.com/", "example.com/"}
\* pieces that read youtube.com/ somewhere
YoutubeComPieces == {"youtube.com/", "www.youtube.com/", "m.youtube.com/"}
\* (?:v|e(?:mbed)?|shorts)\/ and .*[?&]v=
VideoPathPieces == {"v/", "e/", "embed/", "shorts/", "watch?v="}
\* pieces that begin with 11 characters of [a-zA-Z0-9_-]
IdPieces == {"abc12345678", "xyz12345678"}

\* isValidUrl(url): new URL(url) parses and the protocol is http: or https:
isValidUrl(url) == Len(url) >= 2 /\ url[1] \in HttpSchemes /\ url[2] \in UrlHosts

\* the regex of extractVideoId matches at piece i of the url
VideoIdAt(url, i) ==
    IF i + 1 <= Len(url) /\ url[i] = "youtu.be/" /\ url[i + 1] \in IdPieces
    THEN url[i + 1]
    ELSE IF i + 2 <= Len(url) /\ url[i] \in YoutubeComPieces
            /\ url[i + 1] \in VideoPathPieces /\ url[i + 2] \in IdPieces
    THEN url[i + 2]
    ELSE NoMatch

\* YoutubeManager.extractVideoId(url): the leftmost match's group 1, or null
extractVideoId(url) ==
    IF url = <<>> \/ \A i \in 1..Len(url) : VideoIdAt(url, i) = NoMatch
    THEN NoMatch
    ELSE VideoIdAt(url, CHOOSE i \in 1..Len(url) :
                            /\ VideoIdAt(url, i) # NoMatch
                            /\ \A j \in 1..(i - 1) : VideoIdAt(url, j) = NoMatch)

VideoUrls ==
    { <<"https://", "youtu.be/", "abc12345678">>,
      <<" ", "https://", "www.youtube.com/", "watch?v=", "abc12345678">>,
      <<"http://", "m.youtube.com/", "embed/", "xyz12345678">>,
      <<"https://", "example.com/", "page">>,
      <<"youtu.be/", "abc12345678">> }

\* the .youtube-item elements renderYoutubeVideos made of the stored collection
RenderedVideos == IF store[K_UNDEFINED].present THEN IdsOf(store[K_UNDEFINED].val) ELSE {}

VideoEvents ==
    {Call("embed", NoId, NoId, [value |-> u], JsUndefined) : u \in VideoUrls}
    \cup {Call("click-video", i, NoId, [action |-> a], JsUndefined) :
            i \in RenderedVideos, a \in {"delete-youtube", "none"}}
    \cup {Call("click-video", NoId, NoId, [action |-> "none"], JsUndefined)}

\* video id the embed event carries
VideoIdOf(ev) == extractVideoId(trim(ev.data.value))

newVideo(videoId, id, t) == [id |-> id, videoId |-> videoId, timestamp |-> t]

\* the catch block: console.error(error), then the alert
VideoFailure(ev, error) ==
    IF ev.op = "embed"
    THEN (IF error = "TypeError" THEN "alert:embedVideoFailed:TypeError"
                                 ELSE "alert:embedVideoFailed:rejected")
    ELSE (IF error = "TypeError" THEN "alert:deleteVideoFailed:TypeError"
                                 ELSE "alert:deleteVideoFailed:rejected")
StoreRejections == {"alert:embedVideoFailed:rejected", "alert:deleteVideoFailed:rejected"}

VideoHandlerNeedsId(h) == hpc[h] = "vloading" /\ hcall[h].op = "embed"

\* handleYoutubeEmbed / the container's click listener up to the first await
VBegin(h, ev) ==
    /\ hpc[h] = "idle"
    /\ ev.op = "embed" =>
          nextId + Cardinality({g \in Handlers : VideoHandlerNeedsId(g)}) <= MaxId
    /\ hcall' = [hcall EXCEPT ![h] = ev]
    /\ nops' = nops + 1
    /\ IF ev.op = "embed" /\ ~isValidUrl(trim(ev.data.value))
       THEN /\ hpc' = [hpc EXCEPT ![h] = "done"]
            /\ hout' = [hout EXCEPT ![h] = "alert:invalidYoutubeUrl"]
       ELSE IF ev.op = "embed" /\ VideoIdOf(ev) = NoMatch
       THEN /\ hpc' = [hpc EXCEPT ![h] = "done"]
            /\ hout' = [hout EXCEPT ![h] = "alert:invalidYoutubeUrlSpecific"]
       ELSE IF ev.op = "click-video" /\ ev.id = NoId
       THEN \* no .youtube-item[data-id] around the target
            /\ hpc' = [hpc EXCEPT ![h] = "done"]
            /\ hout' = [hout EXCEPT ![h] = "returned"]
       ELSE /\ hpc' = [hpc EXCEPT ![h] = "vloading"]
            /\ hout' = hout
    /\ UNCHANGED <<store, now, nextId, ctxVars, hlocal, rendered, trail, hook, loading>>

\* getItem(STORAGE_KEYS.YOUTUBE_VIDEOS) has resolved: the code up to setItem
VLoaded(h) ==
    LET ev == hcall[h]
        got == getItem(store, K_UNDEFINED, NullItem)
        videos == got.val
        ends(out) == /\ hpc' = [hpc EXCEPT ![h] = "done"]
                     /\ hout' = [hout EXCEPT ![h] = out]
                     /\ UNCHANGED <<hlocal, nextId>>
        saves(coll, fresh) == /\ hpc' = [hpc EXCEPT ![h] = "vsaving"]
                              /\ hout' = hout
                              /\ hlocal' = [hlocal EXCEPT ![h] = Stored(coll)]
                              /\ nextId' = nextId + fresh
    IN
    IF ev.op = "click-video" /\ ev.data.action # "delete-youtube"
    THEN ends("returned")
    ELSE IF ~got.present
    THEN \* videos is null: videos.some / videos.filter throw a TypeError
         ends(VideoFailure(ev, "TypeError"))
    ELSE IF ev.op = "embed"
    THEN IF \E i \in 1..Len(videos) : videos[i].videoId = VideoIdOf(ev)
         THEN ends("alert:videoAlreadyEmbedded")
         ELSE saves(Append(videos, newVideo(VideoIdOf(ev), nextId, now)), 1)
    ELSE saves(filterOut(videos, ev.id), 0)

\* the await the video handler is suspended at settles: getItem, or setItem
VResume(h) ==
    /\ hpc[h] \in {"vloading", "vsaving"}
    /\ IF hpc[h] = "vloading"
       THEN /\ \E f \in ReadFaults \cup {"none"} :
                 IF f = "none"
                 THEN VLoaded(h)
                 ELSE /\ hpc' = [hpc EXCEPT ![h] = "done"]
                      /\ hout' = [hout EXCEPT ![h] = VideoFailure(hcall[h], "rejected")]
                      /\ UNCHANGED <<hlocal, nextId>>
            /\ store' = store
       ELSE /\ \E f \in WriteFaults \cup {"none"} :
                 IF f = "none"
                 THEN /\ store' = setItem(store, K_UNDEFINED, hlocal[h].val)
                      /\ hout' = [hout EXCEPT ![h] = "rendered"]
                 ELSE /\ hout' = [hout EXCEPT ![h] = VideoFailure(hcall[h], "rejected")]
                      /\ store' = store
            /\ hpc' = [hpc EXCEPT ![h] = "done"]
            /\ UNCHANGED <<hlocal, nextId>>
    /\ UNCHANGED <<now, ctxVars, hcall, rendered, nops, trail, hook, loading>>

\* the handler execution is over; the user has seen how it ended
VReturn(h) ==
    /\ hpc[h] = "done"
    /\ hcall[h].op \in {"embed", "click-video"}
    /\ hpc' = [hpc EXCEPT ![h] = "idle"]
    /\ hcall' = [hcall EXCEPT ![h] = NoCall]
    /\ hlocal' = [hlocal EXCEPT ![h] = Absent]
    /\ hout' = [hout EXCEPT ![h] = "none"]
    /\ trail' = Append(trail, [call |-> hcall[h], result |-> hout[h],
                                doc |-> getItem(store, K_UNDEFINED, NullItem)])
    /\ UNCHANGED <<store, now, nextId, ctxVars, rendered, nops, hook, loading>>

(***************************************************************************)
(* Settings change: options page save and the message to other contexts    *)
(***************************************************************************)
\* how the promise chrome.runtime.sendMessage returns settles: the message reaches a
\* listener, or there is no receiving end and the promise rejects
SendOutcomes == {"delivered", "rejected"}
Themes == {"light", "dark"}
RetUndefined == Returned([t |-> "undefined"])
NoMessage == [present |-> FALSE, val |-> <<>>]
SentMessage(action, outcome) ==
    [present |-> TRUE, val |-> <<[action |-> action, outcome |-> outcome]>>]

\* the click on the Save button: saveSettings up to its await
OBegin(h, theme) ==
    /\ hpc[h] = "idle"
    /\ hcall' = [hcall EXCEPT ![h] =
                    Call("saveSettings", NoId, NoId, {<<"theme", theme>>}, JsUndefined)]
    /\ hpc' = [hpc EXCEPT ![h] = "osaving"]
    /\ nops' = nops + 1
    /\ UNCHANGED <<store, now, nextId, ctxVars, hlocal, hout, rendered, trail, hook, loading>>

\* an awaited send: its rejection is thrown into the try block
saveSettingsAwaitingSend(outcome) ==
    IF outcome = "rejected" THEN "Error saving settings!" ELSE "Settings saved!"
\* what the page shows once the save has resolved and the message was handed to
\* chrome.runtime.sendMessage, whose promise nobody awaits
saveSettingsReports(outcome) == "Settings saved!"

\* StorageManager.saveSettings resolves or rejects; the rest of saveSettings runs
OSettle(h) ==
    /\ hpc[h] = "osaving"
    /\ \E f \in WriteFaults \cup {"none"}, outcome \in SendOutcomes :
         IF f = "none"
         THEN /\ store' = saveSettings(store, hcall[h].data)
              /\ hout' = [hout EXCEPT ![h] = saveSettingsReports(outcome)]
              /\ hlocal' = [hlocal EXCEPT ![h] = SentMessage("settingsUpdated", outcome)]
         ELSE /\ hout' = [hout EXCEPT ![h] = "Error saving settings!"]
              /\ UNCHANGED <<store, hlocal>>
    /\ hpc' = [hpc EXCEPT ![h] = "done"]
    /\ UNCHANGED <<now, nextId, ctxVars, hcall, rendered, nops, trail, hook, loading>>

\* the save handler is over
OReturn(h) ==
    /\ hpc[h] = "done"
    /\ hpc' = [hpc EXCEPT ![h] = "idle"]
    /\ hcall' = [hcall EXCEPT ![h] = NoCall]
    /\ hlocal' = [hlocal EXCEPT ![h] = Absent]
    /\ hout' = [hout EXCEPT ![h] = "none"]
    /\ UNCHANGED <<store, now, nextId, ctxVars, rendered, nops, trail, hook, loading>>

\* items.theme: the value of the theme property, undefined when the object has none
ThemeOf(settings) ==
    IF \E p \in settings : p[1] = "theme"
    THEN (CHOOSE p \in settings : p[1] = "theme")[2]
    ELSE "undefined"

\* the options page is opened: init -> loadSettingsAndRender up to its await
OOpen(h) ==
    /\ hpc[h] = "idle"
    /\ hcall' = [hcall EXCEPT ![h] =
                    Call("loadSettingsAndRender", NoId, NoId, {<<"theme", "light">>}, JsUndefined)]
    /\ hpc' = [hpc EXCEPT ![h] = "oloading"]
    /\ nops' = nops + 1
    /\ UNCHANGED <<store, now, nextId, ctxVars, hlocal, hout, rendered, trail, hook, loading>>

\* StorageManager.getSettings(defaultSettings) resolves, its argument unused, and the
\* page sets themeSelect.value and the theme- class; or it rejects and the catch logs
OShow(h) ==
    /\ hpc[h] = "oloading"
    /\ \E f \in ReadFaults \cup {"none"} :
         hout' = [hout EXCEPT ![h] =
                    IF f = "none" THEN "theme-" \o ThemeOf(getSettings(store).val)
                    ELSE "logged"]
    /\ hpc' = [hpc EXCEPT ![h] = "done"]
    /\ UNCHANGED <<store, now, nextId, ctxVars, hcall, hlocal, rendered, nops, trail, hook, loading>>

\* BackgroundService.sendMessageToPopup(type, data) up to its await
NotifyBegin(c, type) ==
    /\ pc[c] = "idle"
    /\ call' = [call EXCEPT ![c] = Call("sendMessageToPopup", NoId, NoId, [type |-> type], JsUndefined)]
    /\ pc' = [pc EXCEPT ![c] = "sending"]
    /\ nops' = nops + 1
    /\ UNCHANGED <<store, now, nextId, local, pend, result, io, fault, missed, popupVars, trail, hook, loading>>

\* try { await sendMessage } catch (error) { console.error }: the promise of
\* sendMessageToPopup resolves either way
sendMessageToPopupSettles(outcome) == RetUndefined

\* the awaited send settles
NotifySettle(c) ==
    /\ pc[c] = "sending"
    /\ \E outcome \in SendOutcomes :
         /\ result' = [result EXCEPT ![c] = sendMessageToPopupSettles(outcome)]
         /\ fault' = [fault EXCEPT ![c] = IF outcome = "rejected" THEN "logged" ELSE "none"]
    /\ pc' = [pc EXCEPT ![c] = "done"]
    /\ UNCHANGED <<store, now, nextId, call, local, pend, io, missed, popupVars, nops, trail, hook, loading>>

(***************************************************************************)
(* BackgroundService.handleMessage                                         *)
(***************************************************************************)
\* message.data by what Array.isArray and typeof say of it
ArrayData(v) == [kind |-> "array", val |-> v]
ObjectData(o) == [kind |-> "object", val |-> o]
NullData == [kind |-> "null", val |-> <<>>]
StringData == [kind |-> "string", val |-> <<>>]
\* no type property, or a falsy one
MissingType == ""
Message(type, data, key, videoId) == [type |-> type, data |-> data, key |-> key, videoId |-> videoId]
Response(status, text) == [t |-> "response", status |-> status, message |-> text]
DataResponse(data) == [t |-> "response", status |-> "success", data |-> data]

SetTypes == {"SET_TASKS", "SET_NOTES", "SET_SETTINGS"}
\* the key of chrome.storage.local a SET_ message writes
SetKey(type) ==
    CASE type = "SET_TASKS" -> B_TASKS
      [] type = "SET_NOTES" -> B_NOTES
      [] type = "SET_SETTINGS" -> B_SETTINGS
\* a payload that passes every check
handleMessageAcceptsAll(msg) == TRUE
\* Array.isArray(message.data); typeof message.data === 'object' && message.data !== null
handleMessageAccepts(msg) ==
    IF msg.type = "SET_SETTINGS" THEN msg.data.kind \in {"array", "object"}
    ELSE msg.data.kind = "array"
SetRefusal(type) ==
    CASE type = "SET_TASKS" -> "Failed to set tasks: Invalid data format"
      [] type = "SET_NOTES" -> "Failed to set notes: Invalid data format"
      [] type = "SET_SETTINGS" -> "Failed to set settings: Invalid data format"
SetFailure(type) ==
    CASE type = "SET_TASKS" -> "Failed to set tasks"
      [] type = "SET_NOTES" -> "Failed to set notes"
      [] type = "SET_SETTINGS" -> "Failed to set settings"
SetSuccess(type) ==
    CASE type = "SET_TASKS" -> "Tasks saved successfully"
      [] type = "SET_NOTES" -> "Notes saved successfully"
      [] type = "SET_SETTINGS" -> "Settings saved successfully"

AwaitingTypes == SetTypes \cup {"GET_STORED_DATA", "CLEAR_ALL_DATA", "GET_ACTIVE_TAB_URL"}
\* the response handleMessage sends before any await, when it sends one
SyncResponse(msg) ==
    CASE msg.type = MissingType -> Response("error", "Message type is missing")
      [] msg.type \in SetTypes -> Response("error", SetRefusal(msg.type))
      [] msg.type = "FETCH_YOUTUBE_INFO" ->
            IF msg.videoId = NoMatch
            THEN Response("error", "Failed to fetch YouTube info: YouTube videoId is missing.")
            ELSE DataResponse(<<msg.videoId>>)
      [] OTHER -> Response("error", "Unknown message type")
RespondsAtOnce(msg) ==
    \/ msg.type \notin AwaitingTypes
    \/ msg.type \in SetTypes /\ ~handleMessageAccepts(msg)

\* the payloads tried with the types that read message.data
Payloads == <<ArrayData(<<>>), ArrayData(<<[id |-> 1]>>), ObjectData({}), NullData, StringData>>
PayloadTypes == <<"SET_TASKS", "SET_NOTES", MissingType, "PING">>
Messages ==
    [i \in 1..(Len(PayloadTypes) * Len(Payloads)) |->
        Message(PayloadTypes[((i - 1) \div Len(Payloads)) + 1],
                Payloads[((i - 1) % Len(Payloads)) + 1], B_TASKS, NoMatch)]
    \o << Message("SET_SETTINGS", ObjectData({<<"theme", "dark">>}), B_TASKS, NoMatch),
          Message("SET_SETTINGS", NullData, B_TASKS, NoMatch),
          Message("SET_SETTINGS", StringData, B_TASKS, NoMatch),
          Message("GET_STORED_DATA", NullData, B_TASKS, NoMatch),
          Message("GET_STORED_DATA", NullData, K_TASKS, NoMatch),
          Message("CLEAR_ALL_DATA", NullData, B_TASKS, NoMatch),
          Message("GET_ACTIVE_TAB_URL", NullData, B_TASKS, NoMatch),
          Message("FETCH_YOUTUBE_INFO", NullData, B_TASKS, NoMatch),
          Message("FETCH_YOUTUBE_INFO", NullData, B_TASKS, "abc12345678") >>

\* the message port once the listener has returned.  The listener is an async
\* function: what it returns to the browser is a promise, not the value true, and
\* whether the browser keeps the port open for a promise depends on its version
PortOutcomes == {"open", "closed"}
Port(state) == [kind |-> state]

\* chrome.runtime.onMessage delivers a message: handleMessage up to its first await,
\* or to sendResponse when nothing is awaited; sendResponse called before the
\* listener returns always reaches the sender
MsgBegin(c, msg) ==
    /\ pc[c] = "idle"
    /\ call' = [call EXCEPT ![c] = Call("handleMessage", NoId, NoId, msg, JsUndefined)]
    /\ nops' = nops + 1
    /\ IF RespondsAtOnce(msg)
       THEN /\ pc' = [pc EXCEPT ![c] = "done"]
            /\ result' = [result EXCEPT ![c] = Returned(SyncResponse(msg))]
            /\ pend' = [pend EXCEPT ![c] = Port("open")]
       ELSE /\ pc' = [pc EXCEPT ![c] = "awaiting"]
            /\ result' = result
            /\ \E port \in PortOutcomes : pend' = [pend EXCEPT ![c] = Port(port)]
    /\ UNCHANGED <<store, now, nextId, local, io, fault, missed, popupVars, trail, hook, loading>>

\* how chrome.tabs.query settles
TabOutcomes == {"tab", "no tab", "rejected"}
\* the awaited call resolves: the store after it and the response
MsgResolved(msg, st, tab) ==
    CASE msg.type \in SetTypes ->
            [store |-> [st EXCEPT ![SetKey(msg.type)] = Stored(msg.data.val)],
             response |-> Response("success", SetSuccess(msg.type))]
      [] msg.type = "GET_STORED_DATA" ->
            [store |-> st, response |-> DataResponse(<<msg.key, st[msg.key]>>)]
      [] msg.type = "CLEAR_ALL_DATA" ->
            [store |-> clearAll(st), response |-> Response("success", "All local data cleared")]
      [] msg.type = "GET_ACTIVE_TAB_URL" ->
            [store |-> st,
             response |-> IF tab = "tab" THEN DataResponse(<<"url", "title">>)
                          ELSE Response("error", "No active tab found")]
\* the awaited call rejects: the catch block's response
MsgRejected(msg) ==
    CASE msg.type \in SetTypes -> Response("error", SetFailure(msg.type))
      [] msg.type = "GET_STORED_DATA" -> Response("error", "Failed to get data")
      [] msg.type = "CLEAR_ALL_DATA" -> Response("error", "Failed to clear all data")
      [] msg.type = "GET_ACTIVE_TAB_URL" -> Response("error", "Failed to get active tab URL")

\* the awaited call of handleMessage settles; sendResponse(response)
MsgResolve(c) ==
    /\ pc[c] = "awaiting"
    /\ LET msg == call[c].data IN
       \E f \in WriteFaults \cup {"none"}, tab \in TabOutcomes :
         /\ msg.type # "GET_ACTIVE_TAB_URL" => tab = "tab"
         /\ msg.type = "GET_ACTIVE_TAB_URL" => f \in {"none", "unavailable"}
         /\ msg.type = "GET_STORED_DATA" => f \in ReadFaults \cup {"none"}
         /\ IF f = "none" /\ tab # "rejected"
            THEN /\ store' = MsgResolved(msg, store, tab).store
                 /\ result' = [result EXCEPT ![c] = Returned(MsgResolved(msg, store, tab).response)]
                 /\ fault' = fault
            ELSE /\ store' = store
                 /\ result' = [result EXCEPT ![c] = Returned(MsgRejected(msg))]
                 /\ fault' = [fault EXCEPT ![c] = IF f = "none" THEN tab ELSE f]
    /\ pc' = [pc EXCEPT ![c] = "done"]
    /\ UNCHANGED <<now, nextId, call, local, pend, io, missed, popupVars, nops, trail, hook, loading>>

(***************************************************************************)
(* NoteManager.init                                                        *)
(***************************************************************************)
\* init(): up to the await of StorageManager.getItem('notes')
InitBegin(c) ==
    /\ pc[c] = "idle"
    /\ call' = [call EXCEPT ![c] = Call("init", NoId, NoId, JsUndefined, JsUndefined)]
    /\ nops' = nops + 1
    /\ pc' = [pc EXCEPT ![c] = "initloading"]
    /\ io' = [io EXCEPT ![c].reads = @ + 1]
    /\ UNCHANGED <<store, now, nextId, local, pend, result, fault, missed, popupVars, trail, hook, loading>>

\* the await init is suspended at settles: getItem('notes'), or saveAllNotes([])
InitResume(c) ==
    /\ pc[c] \in {"initloading", "initsaving"}
    /\ IF pc[c] = "initloading"
       THEN /\ \E f \in ReadFaults \cup {"none"} :
                 IF f # "none"
                 THEN /\ pc' = [pc EXCEPT ![c] = "done"]
                      /\ result' = [result EXCEPT ![c] = NMFaultThrows(f)]
                      /\ fault' = [fault EXCEPT ![c] = f]
                      /\ io' = io
                 ELSE IF getItem(store, B_NOTES, NullItem).present
                 THEN /\ pc' = [pc EXCEPT ![c] = "done"]
                      /\ result' = [result EXCEPT ![c] = RetUndefined]
                      /\ UNCHANGED <<fault, io>>
                 ELSE /\ pc' = [pc EXCEPT ![c] = "initsaving"]
                      /\ io' = [io EXCEPT ![c].writes = @ + 1]
                      /\ UNCHANGED <<result, fault>>
            /\ store' = store
       ELSE /\ \E f \in WriteFaults \cup {"none"} :
                 IF f = "none"
                 THEN /\ store' = saveAllNotes(store, <<>>)
                      /\ result' = [result EXCEPT ![c] = RetUndefined]
                      /\ fault' = fault
                 ELSE /\ store' = store
                      /\ result' = [result EXCEPT ![c] = NMFaultThrows(f)]
                      /\ fault' = [fault EXCEPT ![c] = f]
            /\ pc' = [pc EXCEPT ![c] = "done"]
            /\ io' = io
    /\ UNCHANGED <<now, nextId, call, local, pend, missed, popupVars, nops, trail, hook, loading>>

(***************************************************************************)
(* UserNotificationSystem: the loading indicator                           *)
(***************************************************************************)
\* _loadingContainer before init(): null
NoLoading ==
    [made |-> FALSE, hidden |-> TRUE, busy |-> FALSE, opacity |-> "unset", message |-> EmptyStr,
     moving |-> FALSE, listeners |-> 0, last |-> "none"]
LoadingMessages == {"Loading...", "Saving"}

\* init(): the container is created with the class loading-hidden and aria-busy false
LoadingInit ==
    /\ ~loading.made
    /\ loading' = [loading EXCEPT !.made = TRUE]
    /\ nops' = nops + 1
    /\ UNCHANGED <<store, now, nextId, ctxVars, popupVars, trail, hook>>

\* showLoading(message)
showLoading(message) ==
    /\ nops' = nops + 1
    /\ loading' = IF ~loading.made THEN loading
                  ELSE [loading EXCEPT !.message = message, !.hidden = FALSE, !.busy = TRUE,
                                       !.opacity = "1",
                                       !.moving = @ \/ loading.opacity # "1",
                                       !.last = "show"]
    /\ UNCHANGED <<store, now, nextId, ctxVars, popupVars, trail, hook>>

\* hideLoading(): a listener for the next transitionend is added at every call
hideLoading ==
    /\ nops' = nops + 1
    /\ loading' = IF ~loading.made THEN loading
                  ELSE [loading EXCEPT !.busy = FALSE, !.opacity = "0",
                                       !.moving = @ \/ loading.opacity = "1",
                                       !.listeners = @ + 1,
                                       !.last = "hide"]
    /\ UNCHANGED <<store, now, nextId, ctxVars, popupVars, trail, hook>>

\* the opacity transition under way ends: transitionend runs every listener
\* registered with { once: true }, each adding the class loading-hidden
TransitionEnd ==
    /\ loading.moving
    /\ loading' = [loading EXCEPT !.moving = FALSE,
                                  !.hidden = @ \/ loading.listeners > 0,
                                  !.listeners = 0]
    /\ UNCHANGED <<store, now, nextId, ctxVars, popupVars, nops, trail, hook>>

(***************************************************************************)
(* BackgroundService.handleInstalled                                       *)
(***************************************************************************)
HookIdle == [pc |-> "idle", reason |-> "none", outcome |-> "none"]
InstallReasons == {"install", "update", "chrome_update"}
DefaultSettings ==
    {<<"theme", "light">>, <<"defaultView", "tasks">>, <<"notificationsEnabled", "true">>}
\* chrome.storage.local.set({tasks: [], notes: [], settings: {...}, youtubeVideos: []})
InstallSeed(st) ==
    [st EXCEPT ![B_TASKS] = Stored(<<>>), ![B_NOTES] = Stored(<<>>),
               ![B_SETTINGS] = Stored(DefaultSettings), ![B_VIDEOS] = Stored(<<>>)]

handleInstalledSeedsOnUpdate(reason) == reason \in {"install", "update"}
\* if (details.reason === 'install')
handleInstalledSeeds(reason) == reason = "install"

\* chrome.runtime.onInstalled fires: 'install' once, before anything else has run
HookBegin(reason) ==
    /\ hook.pc \in {"idle", "done"}
    /\ reason = "install" => hook.pc = "idle" /\ nops = 0
    /\ nops' = nops + 1
    /\ hook' = IF handleInstalledSeeds(reason)
               THEN [pc |-> "writing", reason |-> reason, outcome |-> "none"]
               ELSE [pc |-> "done", reason |-> reason, outcome |-> "logged:" \o reason]
    /\ UNCHANGED <<store, now, nextId, ctxVars, popupVars, trail, loading>>

\* the set resolves, or rejects: catch (e) { console.error(...) }
HookResolve ==
    /\ hook.pc = "writing"
    /\ \E f \in WriteFaults \cup {"none"} :
         IF f = "none"
         THEN /\ store' = InstallSeed(store)
              /\ hook' = [hook EXCEPT !.pc = "done", !.outcome = "seeded"]
         ELSE /\ store' = store
              /\ hook' = [hook EXCEPT !.pc = "done", !.outcome = "logged:failed"]
    /\ UNCHANGED <<now, nextId, ctxVars, popupVars, nops, trail, loading>>

(***************************************************************************)
(* A context runs one manager operation                                    *)
(***************************************************************************)
Init ==
    /\ store = EmptyStore
    /\ now = 1
    /\ nextId = 1
    /\ pc = [c \in Contexts |-> "idle"]
    /\ call = [c \in Contexts |-> NoCall]
    /\ local = [c \in Contexts |-> <<>>]
    /\ pend = [c \in Contexts |-> NoResult]
    /\ result = [c \in Contexts |-> NoResult]
    /\ io = [c \in Contexts |-> NoIo]
    /\ fault = [c \in Contexts |-> "none"]
    /\ missed = [c \in Contexts |-> NoneMissed]
    /\ hpc = [h \in Handlers |-> "idle"]
    /\ hcall = [h \in Handlers |-> NoCall]
    /\ hlocal = [h \in Handlers |-> Absent]
    /\ hout = [h \in Handlers |-> "none"]
    /\ rendered = {}
    /\ nops = 0
    /\ trail = <<>>
    /\ hook = HookIdle
    /\ loading = NoLoading

\* the call: guard clauses, then the read is issued
Begin(c, cl) ==
    /\ pc[c] = "idle"
    /\ Generates(cl) => nextId + IdsAwaited <= MaxId
    /\ call' = [call EXCEPT ![c] = cl]
    /\ nops' = nops + 1
    /\ IF Invalid(cl)
       THEN /\ pc' = [pc EXCEPT ![c] = "done"]
            /\ result' = [result EXCEPT ![c] = InvalidThrows(cl)]
            /\ io' = io
       ELSE /\ pc' = [pc EXCEPT ![c] = "loading"]
            /\ result' = result
            /\ io' = [io EXCEPT ![c].reads = @ + 1]
    /\ UNCHANGED <<store, now, nextId, local, pend, fault, missed, popupVars, trail, hook, loading>>

\* chrome.storage.local.get resolves or rejects
Load(c) ==
    /\ pc[c] = "loading"
    /\ \E f \in ReadFaults \cup {"none"} :
         IF f = "none"
         THEN /\ local' = [local EXCEPT ![c] = LoadAll(call[c], store).val]
              /\ pc' = [pc EXCEPT ![c] = "loaded"]
              /\ UNCHANGED <<result, fault>>
         ELSE /\ pc' = [pc EXCEPT ![c] = "done"]
              /\ result' = [result EXCEPT ![c] = FaultThrows(call[c], f)]
              /\ fault' = [fault EXCEPT ![c] = f]
              /\ local' = local
    /\ missed' = [missed EXCEPT ![c] = NoneMissed]
    /\ UNCHANGED <<store, now, nextId, call, pend, io, popupVars, nops, trail, hook, loading>>

\* the continuation after the read: transform in memory, return or issue the write
Compute(c) ==
    /\ pc[c] = "loaded"
    /\ LET r == Continue(call[c], local[c], nextId, now) IN
       IF r.write
       THEN /\ local' = [local EXCEPT ![c] = r.doc]
            /\ pend' = [pend EXCEPT ![c] = r.ret]
            /\ pc' = [pc EXCEPT ![c] = "saving"]
            /\ io' = [io EXCEPT ![c].writes = @ + 1]
            /\ nextId' = IF r.fresh THEN nextId + 1 ELSE nextId
            /\ result' = result
       ELSE /\ pc' = [pc EXCEPT ![c] = "done"]
            /\ result' = [result EXCEPT ![c] = r.ret]
            /\ UNCHANGED <<local, pend, io, nextId>>
    /\ UNCHANGED <<store, now, call, fault, missed, popupVars, nops, trail, hook, loading>>

\* ids a landed write of context c brings into being
Created(c) == IF Generates(call[c]) THEN {pend[c].val.v.id} ELSE {}

\* chrome.storage.local.set resolves or rejects
Write(c) ==
    /\ pc[c] = "saving"
    /\ \E f \in WriteFaults \cup {"none"} :
         IF f = "none"
         THEN /\ store' = SaveAll(call[c], store, local[c])
              /\ result' = [result EXCEPT ![c] = pend[c]]
              /\ missed' = [d \in Contexts |->
                              IF d # c /\ pc[d] \in {"loaded", "saving"}
                                 /\ KeyOf(call[d]) = KeyOf(call[c])
                              THEN [stale |-> TRUE, ids |-> missed[d].ids \cup Created(c)]
                              ELSE missed[d]]
              /\ fault' = fault
         ELSE /\ result' = [result EXCEPT ![c] = FaultThrows(call[c], f)]
              /\ fault' = [fault EXCEPT ![c] = f]
              /\ UNCHANGED <<store, missed>>
    /\ pc' = [pc EXCEPT ![c] = "done"]
    /\ UNCHANGED <<now, nextId, call, local, pend, io, popupVars, nops, trail, hook, loading>>

\* the async method's promise settles: its frame is gone
Settle(c) ==
    /\ pc[c] = "done"
    /\ pc' = [pc EXCEPT ![c] = "idle"]
    /\ call' = [call EXCEPT ![c] = NoCall]
    /\ local' = [local EXCEPT ![c] = <<>>]
    /\ pend' = [pend EXCEPT ![c] = NoResult]
    /\ result' = [result EXCEPT ![c] = NoResult]
    /\ io' = [io EXCEPT ![c] = NoIo]
    /\ fault' = [fault EXCEPT ![c] = "none"]
    /\ missed' = [missed EXCEPT ![c] = NoneMissed]
    /\ UNCHANGED <<store, now, nextId, popupVars, nops, hook, loading>>

\* the caller has its result; the context is free for the next call
Return(c) == Settle(c) /\ trail' = trail

\* the same, the caller keeping what it called and what it got
ReturnNoted(c) ==
    /\ Settle(c)
    /\ trail' = Append(trail, [call |-> call[c], result |-> result[c],
                                doc |-> getAllTasks(store).val])

\* the wall clock advances
Tick ==
    /\ now < MaxTime
    /\ now' = now + 1
    /\ UNCHANGED <<store, nextId, ctxVars, popupVars, nops, trail, hook, loading>>

\* one caller at a time: an operation is issued when no other is under way
Quiet == \A d \in Contexts : pc[d] = "idle"

\* the context of the single caller
Main == CHOOSE c \in Contexts : TRUE

\* TaskManager, one caller issuing one operation after the other
Next ==
    \/ \E cl \in TMCalls : Quiet /\ nops < MaxOps /\ Begin(Main, cl)
    \/ \E c \in Contexts : Load(c)
    \/ \E c \in Contexts : Compute(c)
    \/ \E c \in Contexts : Write(c)
    \/ \E c \in Contexts : Return(c)
    \/ Tick

Spec == Init /\ [][Next]_vars

\* NoteManager, one caller issuing one operation after the other
NotesNext ==
    \/ \E cl \in NMCalls : Quiet /\ nops < MaxOps /\ Begin(Main, cl)
    \/ \E c \in Contexts : Load(c)
    \/ \E c \in Contexts : Compute(c)
    \/ \E c \in Contexts : Write(c)
    \/ \E c \in Contexts : Return(c)
    \/ Tick

SpecNotes == Init /\ [][NotesNext]_vars

\* both managers, one caller issuing one operation after the other
ManagersNext ==
    \/ \E cl \in TMCalls \cup NMCalls : Quiet /\ nops < MaxMixedOps /\ Begin(Main, cl)
    \/ \E c \in Contexts : Load(c)
    \/ \E c \in Contexts : Compute(c)
    \/ \E c \in Contexts : Write(c)
    \/ \E c \in Contexts : Return(c)
    \/ Tick

SpecManagers == Init /\ [][ManagersNext]_vars

\* contexts that issue operations independently of each other
RaceCalls ==
    {Call("createTask", NoId, NoId, [title |-> "a"], JsUndefined)}
    \cup {Call("deleteTask", i, NoId, JsUndefined, JsUndefined) : i \in Ids}
    \cup {Call("updateTask", i, NoId, d, JsUndefined) : i \in Ids, d \in {p \in PartialFields : IsObj(p)}}
    \cup {Call("addSubtask", i, NoId, [title |-> "a"], JsUndefined) : i \in Ids}

RaceNext ==
    \/ \E c \in Contexts, cl \in RaceCalls : nops < MaxRaceOps /\ Begin(c, cl)
    \/ \E c \in Contexts : Load(c)
    \/ \E c \in Contexts : Compute(c)
    \/ \E c \in Contexts : Write(c)
    \/ \E c \in Contexts : Return(c)
    \/ Tick

SpecRace == Init /\ [][RaceNext]_vars

\* the popup beside a context that creates tasks through TaskManager
SeedCalls == {Call("createTask", NoId, NoId, [title |-> "a"], JsUndefined)}

PopupNext ==
    \/ \E h \in Handlers, ev \in PopupEvents : nops < MaxPopupOps /\ HBegin(h, ev)
    \/ \E h \in Handlers : HLoad(h)
    \/ \E h \in Handlers : HCompute(h)
    \/ \E h \in Handlers : HWrite(h)
    \/ \E h \in Handlers : HReturn(h)
    \/ OpenPopup
    \/ \E cl \in SeedCalls : Quiet /\ nops < MaxPopupOps /\ Begin(Main, cl)
    \/ \E c \in Contexts : Load(c)
    \/ \E c \in Contexts : Compute(c)
    \/ \E c \in Contexts : Write(c)
    \/ \E c \in Contexts : Return(c)
    \/ Tick

SpecPopup == Init /\ [][PopupNext]_vars

\* one caller that, after some calls, keeps what it calls and what it gets, and goes
\* on as its results tell it: deleteTask(id) then getTaskById(id), or createTask,
\* addSubtask on the created task, markSubtaskStatus on the added subtask,
\* deleteTask and getTaskById of the task
SeqCalls ==
    {Call("createTask", NoId, NoId, [title |-> "a"], JsUndefined)}
    \cup {Call("deleteTask", i, NoId, JsUndefined, JsUndefined) : i \in Ids}
    \cup {Call("addSubtask", i, NoId, [title |-> "a"], JsUndefined) : i \in Ids}

FollowUps ==
    IF trail = <<>> \/ trail[Len(trail)].result.kind # "ok" THEN {}
    ELSE LET n == Len(trail)
             first == trail[1]
         IN
         CASE first.call.op = "deleteTask" /\ n = 1 ->
                {Call("getTaskById", first.call.id, NoId, JsUndefined, JsUndefined)}
           [] first.call.op = "createTask" /\ n = 1 ->
                {Call("addSubtask", first.result.val.v.id, NoId, [title |-> "a"], JsUndefined)}
           [] first.call.op = "createTask" /\ n = 2 ->
                IF trail[2].result = RetNull THEN {}
                ELSE {Call("markSubtaskStatus", first.result.val.v.id,
                           trail[2].result.val.v.id, JsUndefined, JsBool(TRUE))}
           [] first.call.op = "createTask" /\ n = 3 ->
                {Call("deleteTask", first.result.val.v.id, NoId, JsUndefined, JsUndefined)}
           [] first.call.op = "createTask" /\ n = 4 ->
                {Call("getTaskById", first.result.val.v.id, NoId, JsUndefined, JsUndefined)}
           [] OTHER -> {}

SeqNext ==
    \/ \E cl \in SeqCalls : Quiet /\ trail = <<>> /\ nops < MaxSeqOps /\ Begin(Main, cl)
    \/ \E cl \in FollowUps : Quiet /\ Begin(Main, cl)
    \/ \E c \in Contexts : Load(c)
    \/ \E c \in Contexts : Compute(c)
    \/ \E c \in Contexts : Write(c)
    \/ \E c \in Contexts : trail = <<>> /\ Return(c)
    \/ \E c \in Contexts :
          (trail # <<>> \/ call[c].op \in {"createTask", "deleteTask"}) /\ ReturnNoted(c)
    \/ Tick

SpecSeq == Init /\ [][SeqNext]_vars

(***************************************************************************)
(* StorageManager called directly                                          *)
(***************************************************************************)
SMReads == {"getItem", "getAllTasksItem", "getAllNotesItem", "getSettingsItem"}
SMWrites == {"setItem", "removeItem", "clearAll"}
SMCall(op, key, value, default) ==
    Call(op, NoId, NoId, [key |-> key, value |-> value, default |-> default], JsUndefined)
SMKeys == {K_TASKS, K_NOTES}
SMValues == {<<>>, <<[id |-> 1]>>}
SMDefaults == {NullItem, Stored(<<[id |-> OtherId]>>)}
SMCalls ==
    {SMCall("getItem", k, <<>>, d) : k \in SMKeys, d \in SMDefaults}
    \cup {SMCall("setItem", k, v, NullItem) : k \in SMKeys, v \in SMValues}
    \cup {SMCall("removeItem", k, <<>>, NullItem) : k \in SMKeys}
    \cup {SMCall(op, K_UNDEFINED, <<>>, NullItem) : op \in {"clearAll", "getAllTasksItem", "getAllNotesItem"}}

\* the call: the one chrome.storage.local call of the function is issued
SMBegin(c, cl) ==
    /\ pc[c] = "idle"
    /\ call' = [call EXCEPT ![c] = cl]
    /\ pc' = [pc EXCEPT ![c] = "calling"]
    /\ nops' = nops + 1
    /\ UNCHANGED <<store, now, nextId, local, pend, result, io, fault, missed, popupVars, trail, hook, loading>>

\* what the function returns when its chrome.storage.local call resolves
SMValueOf(cl, st) ==
    CASE cl.op = "getItem" -> Returned([t |-> "item", v |-> getItem(st, cl.data.key, cl.data.default)])
      [] cl.op = "getAllTasksItem" -> Returned([t |-> "item", v |-> getAllTasks(st)])
      [] cl.op = "getAllNotesItem" -> Returned([t |-> "item", v |-> getAllNotes(st)])
      [] cl.op = "getSettingsItem" -> Returned([t |-> "item", v |-> getSettings(st)])
      [] OTHER -> Returned([t |-> "undefined"])
\* what the store holds when it resolves
SMStoreAfter(cl, st) ==
    CASE cl.op = "setItem" -> setItem(st, cl.data.key, cl.data.value)
      [] cl.op = "removeItem" -> removeItem(st, cl.data.key)
      [] cl.op = "clearAll" -> clearAll(st)
      [] OTHER -> st

\* the chrome.storage.local call resolves, or rejects and the catch rethrows
SMResolve(c) ==
    /\ pc[c] = "calling"
    /\ \E f \in (IF call[c].op \in SMReads THEN ReadFaults ELSE WriteFaults) \cup {"none"} :
         IF f = "none"
         THEN /\ result' = [result EXCEPT ![c] = SMValueOf(call[c], store)]
              /\ store' = SMStoreAfter(call[c], store)
              /\ fault' = fault
         ELSE /\ result' = [result EXCEPT ![c] = NMFaultThrows(f)]
              /\ fault' = [fault EXCEPT ![c] = f]
              /\ store' = store
    /\ pc' = [pc EXCEPT ![c] = "done"]
    /\ UNCHANGED <<now, nextId, call, local, pend, io, missed, popupVars, nops, trail, hook, loading>>

StorageNext ==
    \/ \E cl \in SMCalls : Quiet /\ nops < MaxStorageOps /\ SMBegin(Main, cl)
    \/ \E c \in Contexts : SMResolve(c)
    \/ \E c \in Contexts : ReturnNoted(c)

SpecStorage == Init /\ [][StorageNext]_vars

(***************************************************************************)
(* Input validators: isValidDate                                           *)
(***************************************************************************)
\* A date text is given by its digit groups and the separator between them:
\* [y, sep, m, d] reads yyyy sep mm sep dd; BlankText is the text of spaces only
BlankText == [y |-> 0, sep |-> " ", m |-> 0, d |-> 0]
FirstYear == 2023
LastYear == 2024
DateTexts ==
    [y : FirstYear..LastYear, sep : {"-", "/"}, m : {0, 1, 2, 3, 12, 13}, d : {0, 1, 28, 29, 30, 31, 32}]
    \cup {BlankText}
\* hours the local time is ahead of UTC
UtcOffsets == {0 - 5, 0, 9}
\* Date.parse on a date with a day its month does not have: NaN, or the date that
\* many days after the first of the month
Engines == {"strict", "rollover"}

IsLeap(y) == (y % 4 = 0 /\ y % 100 # 0) \/ y % 400 = 0
DaysInMonth(y, m) ==
    IF m = 2 THEN (IF IsLeap(y) THEN 29 ELSE 28)
    ELSE IF m \in {4, 6, 9, 11} THEN 30 ELSE 31
DaysInYear(y) == IF IsLeap(y) THEN 366 ELSE 365

\* days from the first of January of the year before FirstYear to y-m-d
RECURSIVE DaysBeforeYear(_)
DaysBeforeYear(y) == IF y < FirstYear THEN 0 ELSE DaysInYear(y - 1) + DaysBeforeYear(y - 1)
RECURSIVE DaysBeforeMonth(_, _)
DaysBeforeMonth(y, m) == IF m <= 1 THEN 0 ELSE DaysInMonth(y, m - 1) + DaysBeforeMonth(y, m - 1)
DayNumber(y, m, d) == DaysBeforeYear(y) + DaysBeforeMonth(y, m) + (d - 1)

NaN == 0 - 1000000
\* /^\d{4}-\d{2}-\d{2}$/.test(dateString)
dateFormatRegex(s) == s.sep = "-"
\* new Date(dateString).getTime() in hours: a date-only text is read as UTC midnight
DateParse(s, engine) ==
    IF s.m \in 1..12 /\ s.d >= 1
          /\ s.d <= (IF engine = "strict" THEN DaysInMonth(s.y, s.m) ELSE 31)
    THEN 24 * DayNumber(s.y, s.m, s.d)
    ELSE NaN

\* the calendar date of the local day that holds the time t (hours, UTC)
LocalDay(t, offset) == (t + offset + 24) \div 24 - 1
CalendarDates ==
    {dt \in [y : (FirstYear - 1)..(LastYear + 1), m : 1..12, d : 1..31] :
        dt.d <= DaysInMonth(dt.y, dt.m)}
\* getFullYear / getMonth + 1 / getDate
LocalDate(t, offset) ==
    CHOOSE dt \in CalendarDates : DayNumber(dt.y, dt.m, dt.d) = LocalDay(t, offset)

isValidDate(s, offset, engine) ==
    IF s = BlankText THEN FALSE
    ELSE IF ~dateFormatRegex(s) THEN FALSE
    ELSE LET t == DateParse(s, engine)
         IN /\ t # NaN
            /\ LocalDate(t, offset).y = s.y
            /\ LocalDate(t, offset).m = s.m
            /\ LocalDate(t, offset).d = s.d

\* a caller validates a date text in an environment with the given time zone
ValidateDate(c, s, offset, engine) ==
    /\ pc[c] = "idle"
    /\ call' = [call EXCEPT ![c] = Call("isValidDate", NoId, NoId,
                    [value |-> s, utcOffset |-> offset, engine |-> engine], JsUndefined)]
    /\ result' = [result EXCEPT ![c] = RetBool(isValidDate(s, offset, engine))]
    /\ pc' = [pc EXCEPT ![c] = "done"]
    /\ nops' = nops + 1
    /\ UNCHANGED <<store, now, nextId, local, pend, io, fault, missed, popupVars, trail, hook, loading>>

\* isValidDate, called on date texts in environments of several time zones
DatesNext ==
    \/ \E s \in DateTexts, o \in UtcOffsets, e \in Engines :
          nops < MaxDateOps /\ ValidateDate(Main, s, o, e)
    \/ \E c \in Contexts : Return(c)

SpecDates == Init /\ [][DatesNext]_vars

\* the options page saving settings, and the background service notifying
SettingsNext ==
    \/ \E h \in Handlers, t \in Themes : nops < MaxSettingsOps /\ OBegin(h, t)
    \/ \E h \in Handlers : OSettle(h)
    \/ \E h \in Handlers : OReturn(h)
    \/ \E c \in Contexts, t \in {"settingsChanged", "dataChanged"} :
          nops < MaxSettingsOps /\ NotifyBegin(c, t)
    \/ \E c \in Contexts : NotifySettle(c)
    \/ \E c \in Contexts : Return(c)

SpecSettings == Init /\ [][SettingsNext]_vars

\* the options page, opened and saved, after the install hook
OptionsNext ==
    \/ \E reason \in InstallReasons : nops < MaxOptionsOps /\ HookBegin(reason)
    \/ HookResolve
    \/ \E h \in Handlers : nops < MaxOptionsOps /\ OOpen(h)
    \/ \E h \in Handlers : OShow(h)
    \/ \E h \in Handlers, t \in Themes : nops < MaxOptionsOps /\ OBegin(h, t)
    \/ \E h \in Handlers : OSettle(h)
    \/ \E h \in Handlers : OReturn(h)

SpecOptions == Init /\ [][OptionsNext]_vars

\* the loading indicator: calls of the page and the transitionend events
LoadingNext ==
    \/ nops < MaxLoadingOps /\ LoadingInit
    \/ \E m \in LoadingMessages : nops < MaxLoadingOps /\ showLoading(m)
    \/ nops < MaxLoadingOps /\ hideLoading
    \/ TransitionEnd

SpecLoading == Init /\ [][LoadingNext]_vars

\* messages delivered to the background service worker
MessagesNext ==
    \/ \E c \in Contexts, i \in DOMAIN Messages : nops < MaxMessageOps /\ MsgBegin(c, Messages[i])
    \/ \E c \in Contexts : MsgResolve(c)
    \/ \E c \in Contexts : Return(c)

SpecMessages == Init /\ [][MessagesNext]_vars

\* the popup's video form and video list, two handler executions at a time
VideosNext ==
    \/ \E h \in Handlers, ev \in VideoEvents : nops < MaxVideoOps /\ VBegin(h, ev)
    \/ \E h \in Handlers : VResume(h)
    \/ \E h \in Handlers : VReturn(h)

SpecVideos == Init /\ [][VideosNext]_vars

\* the first run: the install hook, then the popup beside a TaskManager caller
FirstRunNext ==
    \/ \E reason \in InstallReasons : nops < MaxFirstRunOps /\ HookBegin(reason)
    \/ HookResolve
    \/ \E h \in Handlers, ev \in PopupEvents : nops < MaxFirstRunOps /\ HBegin(h, ev)
    \/ \E h \in Handlers : HLoad(h)
    \/ \E h \in Handlers : HCompute(h)
    \/ \E h \in Handlers : HWrite(h)
    \/ \E h \in Handlers : HReturn(h)
    \/ OpenPopup
    \/ \E cl \in SeedCalls : Quiet /\ nops < MaxFirstRunOps /\ Begin(Main, cl)
    \/ \E c \in Contexts : Load(c)
    \/ \E c \in Contexts : Compute(c)
    \/ \E c \in Contexts : Write(c)
    \/ \E c \in Contexts : Return(c)

SpecFirstRun == Init /\ [][FirstRunNext]_vars

\* the components side by side: the install hook, the background's message handler
\* in one context and a caller of the managers in the other
ComponentCalls ==
    {Call("createTask", NoId, NoId, [title |-> "a"], JsUndefined),
     Call("getAllTasks", NoId, NoId, JsUndefined, JsUndefined),
     Call("createNote", NoId, NoId, [id |-> OtherId, title |-> "n", content |-> EmptyStr], JsUndefined),
     Call("getAllNotes", NoId, NoId, JsUndefined, JsUndefined)}

ComponentsNext ==
    \/ \E reason \in InstallReasons : nops < MaxComponentOps /\ HookBegin(reason)
    \/ HookResolve
    \/ \E c \in Contexts \ {Main}, i \in DOMAIN Messages :
          nops < MaxComponentOps /\ MsgBegin(c, Messages[i])
    \/ \E c \in Contexts : MsgResolve(c)
    \/ \E cl \in ComponentCalls : nops < MaxComponentOps /\ Begin(Main, cl)
    \/ \E c \in Contexts : Load(c)
    \/ \E c \in Contexts : Compute(c)
    \/ \E c \in Contexts : Write(c)
    \/ \E c \in Contexts : Return(c)

SpecComponents == Init /\ [][ComponentsNext]_vars

\* NoteManager.init beside the note functions, the install hook and the background's
\* message handler
NoteInitCalls ==
    {Call("createNote", NoId, NoId, [id |-> OtherId, title |-> "n", content |-> EmptyStr], JsUndefined),
     Call("getAllNotes", NoId, NoId, JsUndefined, JsUndefined)}
\* messages the background gets beside the note functions
NoteInitMessages == {i \in DOMAIN Messages : Messages[i].type \in {"CLEAR_ALL_DATA", "SET_NOTES"}}

NoteInitNext ==
    \/ \E reason \in InstallReasons : nops < MaxNoteInitOps /\ HookBegin(reason)
    \/ HookResolve
    \/ \E c \in Contexts \ {Main}, i \in NoteInitMessages :
          nops < MaxNoteInitOps /\ MsgBegin(c, Messages[i])
    \/ \E c \in Contexts : MsgResolve(c)
    \/ \E cl \in NoteInitCalls : nops < MaxNoteInitOps /\ Begin(Main, cl)
    \/ nops < MaxNoteInitOps /\ InitBegin(Main)
    \/ \E c \in Contexts : InitResume(c)
    \/ \E c \in Contexts : Load(c)
    \/ \E c \in Contexts : Compute(c)
    \/ \E c \in Contexts : Write(c)
    \/ \E c \in Contexts : Return(c)

SpecNoteInit == Init /\ [][NoteInitNext]_vars

\* the install hook beside one caller of the storage layer
InstallCalls ==
    {SMCall(op, K_UNDEFINED, <<>>, NullItem) :
        op \in {"getAllTasksItem", "getAllNotesItem", "getSettingsItem", "clearAll"}}
    \cup {SMCall("setItem", k, v, NullItem) : k \in {K_TASKS, B_TASKS}, v \in SMValues}

InstallNext ==
    \/ \E reason \in InstallReasons : nops < MaxInstallOps /\ HookBegin(reason)
    \/ HookResolve
    \/ \E cl \in InstallCalls : Quiet /\ nops < MaxInstallOps /\ SMBegin(Main, cl)
    \/ \E c \in Contexts : SMResolve(c)
    \/ \E c \in Contexts : ReturnNoted(c)

SpecInstall == Init /\ [][InstallNext]_vars

(***************************************************************************)
(* Properties                                                              *)
(***************************************************************************)
StoredTasks == getAllTasks(store).val
StoredNotes == getAllNotes(store).val
\* ids of the tasks and of their subtasks
AllTaskIds(tasks) == IdsOf(tasks) \cup UNION {IdsOf(tasks[i].subtasks) : i \in 1..Len(tasks)}
CarriesIdAndSubtasks(p) == Has(p, "id") /\ Has(p, "subtasks")

C2_LastWriterWins ==
    [][\A c \in Contexts :
          (pc[c] = "saving" /\ pc'[c] = "done" /\ fault'[c] = "none" /\ missed[c].stale) =>
              /\ result'[c].kind = "ok"
              /\ store'[K_TASKS] = Stored(local[c])
              /\ AllTaskIds(store'[K_TASKS].val) \cap missed[c].ids = {}]_vars

\* C2 witness: two createTask calls loaded the same collection, both returned their
\* task, and the store holds the later writer's document
C2_Witness ==
    \E c, d \in Contexts :
        /\ c # d
        /\ pc[c] = "done" /\ pc[d] = "done"
        /\ call[c].op = "createTask" /\ call[d].op = "createTask"
        /\ result[c].kind = "ok" /\ result[d].kind = "ok"
        /\ missed[c].ids = {result[d].val.v.id}
        /\ StoredTasks = local[c]
        /\ result[d].val.v.id \notin IdsOf(StoredTasks)

\* C3: within the popup no handler execution loads or saves the tasks collection
\* while another handler execution of the popup is between its load and its save.
HandlerBetweenLoadAndSave(h) == hpc[h] \in {"loaded", "saving"} /\ hlocal[h].present
C3_PopupHandlersSequential ==
    \A h1, h2 \in Handlers :
        h1 # h2 => ~(HandlerBetweenLoadAndSave(h1) /\ HandlerBetweenLoadAndSave(h2))

\* every task present before and after has not moved back in time if its record changed
UpdatedAtAdvances(old, new) ==
    \A i \in 1..Len(old), j \in 1..Len(new) :
        (old[i].id = new[j].id /\ old[i] # new[j]) => new[j].updatedAt >= old[i].updatedAt
StaleWriteLands == \E c \in Contexts : pc[c] = "saving" /\ pc'[c] = "done" /\ missed[c].stale

\* C4 as stated: in every step that changes the stored record of a task, whatever the
\* interleaving of the contexts, the task's stored updatedAt does not decrease.
C4_UpdatedAtAdvancesAlways ==
    [][UpdatedAtAdvances(StoredTasks, StoredTasks')]_vars

\* C4 amended: the stored updatedAt of a task whose record changes does not decrease
\* in any step other than the landing of a save whose context loaded the collection
\* before another context's save landed.
C4_UpdatedAtAdvancesUnlessStale ==
    [][StaleWriteLands \/ UpdatedAtAdvances(StoredTasks, StoredTasks')]_vars

\* C4 witness: a save that was not overtaken has moved a task's updatedAt forward
C4_Witness ==
    \E c \in Contexts :
        /\ pc[c] = "done" /\ result[c].kind = "ok" /\ ~missed[c].stale
        /\ call[c].op \in {"updateTask", "addSubtask"}
        /\ StoredTasks = local[c]
        /\ \E i \in 1..Len(StoredTasks) :
              /\ StoredTasks[i].id = call[c].id
              /\ StoredTasks[i].updatedAt > StoredTasks[i].createdAt
              /\ StoredTasks[i].createdAt > 0

NoDuplicateIds(seq) == \A i, j \in 1..Len(seq) : i # j => seq[i].id # seq[j].id

\* C5: createTask with a non-empty title returns a task whose id no task of the
\* stored collection has and whose subtasks is empty; no two stored tasks share an id.
C5_TaskIdsUnique ==
    /\ NoDuplicateIds(StoredTasks)
    /\ \A c \in Contexts :
          /\ (pc[c] = "saving" /\ call[c].op = "createTask") =>
                /\ pend[c].val.v.id \notin IdsOf(StoredTasks)
                /\ pend[c].val.v.subtasks = <<>>
                /\ pend[c].val.v.title = call[c].data.title
          /\ (pc[c] = "done" /\ call[c].op = "createTask" /\ result[c].kind = "ok") =>
                /\ result[c].val.v.subtasks = <<>>
                /\ Cardinality({i \in 1..Len(StoredTasks) :
                                    StoredTasks[i].id = result[c].val.v.id}) = 1

\* C5 witness: a created task has been stored behind another task, after a deletion
C5_Witness ==
    \E c \in Contexts :
        /\ pc[c] = "done" /\ call[c].op = "createTask" /\ result[c].kind = "ok"
        /\ Len(StoredTasks) = 2
        /\ result[c].val.v.id = 3

\* every element of new is an element of old, unchanged
AllFrom(old, new) == \A j \in 1..Len(new) : \E i \in 1..Len(old) : old[i] = new[j]
\* the elements of old are at their positions in new, with their ids
IdsInPlace(old, new) ==
    Len(new) >= Len(old) /\ \A i \in 1..Len(old) : new[i].id = old[i].id
EntityIds(cl, coll) == IF IsTM(cl) THEN AllTaskIds(coll) ELSE IdsOf(coll)

MissingTitle(data) == ~IsObj(data) \/ "title" \notin DOMAIN data \/ data.title = EmptyStr
StructurallyInvalid(cl) ==
    \/ cl.op \in (TMOps \ {"createTask", "getAllTasks"}) /\ cl.id = NoId
    \/ cl.op \in {"deleteSubtask", "markSubtaskStatus"} /\ cl.sid = NoId
    \/ cl.op \in {"createTask", "addSubtask"} /\ MissingTitle(cl.data)
    \/ cl.op = "updateTask" /\ ~IsObj(cl.data)
    \/ cl.op \in {"markTaskStatus", "markSubtaskStatus"} /\ cl.flag \notin {JsBool(TRUE), JsBool(FALSE)}

SubtaskIdsOf(tasks, id) ==
    UNION {IdsOf(tasks[i].subtasks) : i \in {j \in 1..Len(tasks) : tasks[j].id = id}}

\* C7: with a working store, a well-formed call against an id no stored task has
\* returns null (getTaskById, updateTask, addSubtask, markSubtaskStatus) or false
\* (deleteTask, deleteSubtask); against a stored task without the given subtask,
\* markSubtaskStatus returns null and deleteSubtask returns false.
C7_NotFoundIsNoError ==
    [][\A c \in Contexts :
          (pc[c] = "loaded" /\ pc'[c] # "loaded" /\ ~StructurallyInvalid(call[c])) =>
              LET cl == call[c] IN
              /\ cl.id \notin IdsOf(StoredTasks) =>
                    /\ cl.op \in {"getTaskById", "updateTask", "addSubtask", "markSubtaskStatus"}
                          => (pc'[c] = "done" /\ result'[c] = RetNull)
                    /\ cl.op \in {"deleteTask", "deleteSubtask"}
                          => (pc'[c] = "done" /\ result'[c] = RetBool(FALSE))
              /\ (cl.id \in IdsOf(StoredTasks) /\ cl.sid \notin SubtaskIdsOf(StoredTasks, cl.id)) =>
                    /\ cl.op = "markSubtaskStatus" => (pc'[c] = "done" /\ result'[c] = RetNull)
                    /\ cl.op = "deleteSubtask" => (pc'[c] = "done" /\ result'[c] = RetBool(FALSE))]_vars

\* C7 witness: deleteTask of an id no task has returned false, beside a stored task
\* on which markSubtaskStatus of an unknown subtask would return null
C7_Witness ==
    \E c \in Contexts :
        /\ pc[c] = "done" /\ fault[c] = "none"
        /\ call[c].op = "deleteTask" /\ result[c] = RetBool(FALSE)
        /\ call[c].id # NoId /\ StoredTasks # <<>>

\* C8: a TaskManager operation called with a structurally invalid argument ends with
\* InvalidInputError and has issued no read and no write of the store.
C8_InvalidInputBeforeStore ==
    \A c \in Contexts :
        (pc[c] # "idle" /\ call[c].op \in TMOps /\ StructurallyInvalid(call[c])) =>
            /\ pc[c] = "done"
            /\ result[c] = Threw("InvalidInputError")
            /\ io[c] = NoIo

\* C8 witness: updateTask of a stored task with null for partialFields was refused
C8_Witness ==
    \E c \in Contexts :
        /\ pc[c] = "done" /\ call[c].op = "updateTask" /\ call[c].data = JsNull
        /\ call[c].id \in IdsOf(StoredTasks)
        /\ result[c] = Threw("InvalidInputError")

\* C9: a TaskManager operation whose load or save meets a store failure ends with a
\* StorageError whose originalError is that failure, has issued each store call at
\* most once, and the step leaves the store as it was.
C9_StorageErrorWrapsCause ==
    [][\A c \in Contexts :
          (call[c].op \in TMOps /\ fault[c] = "none" /\ fault'[c] # "none") =>
              /\ pc'[c] = "done"
              /\ result'[c] = [kind |-> "StorageError", originalError |-> fault'[c]]
              /\ store' = store
              /\ io'[c].reads <= 1 /\ io'[c].writes <= 1]_vars

\* C9 witness: the save of a createTask was rejected for quota
C9_Witness ==
    \E c \in Contexts :
        /\ pc[c] = "done" /\ call[c].op = "createTask" /\ fault[c] = "quota"
        /\ result[c].kind = "StorageError" /\ result[c].originalError = "quota"
        /\ Len(local[c]) = Len(StoredTasks) + 1

\* C10: a NoteManager operation called with a missing id or missing data ends with
\* InvalidInputError, one that meets a store failure ends with a StorageError
\* wrapping it, and no other error kind reaches the caller.
C10_NoteErrorsFollowTaxonomy ==
    \A c \in Contexts :
        (pc[c] = "done" /\ call[c].op \in NMOps) =>
            /\ result[c].kind \in {"ok", "InvalidInputError", "StorageError"}
            /\ fault[c] # "none" =>
                  result[c] = [kind |-> "StorageError", originalError |-> fault[c]]
            /\ (call[c].op # "getAllNotes" /\ call[c].op # "createNote" /\ call[c].id = NoId)
                  => result[c].kind = "InvalidInputError"
            /\ (call[c].op \in {"createNote", "updateNote"} /\ call[c].data = JsNull)
                  => result[c].kind = "InvalidInputError"

\* the k-th and the next returned call are op1 and op2 on the same task id
Consecutive(k, op1, op2) ==
    /\ k + 1 <= Len(trail)
    /\ trail[k].call.op = op1 /\ trail[k + 1].call.op = op2
    /\ trail[k].call.id = trail[k + 1].call.id

\* C11: in one context, when deleteTask(id) has returned true or false and the next
\* call is getTaskById(id) and the store answers it, getTaskById returns null.
C11_DeletedTaskIsGone ==
    \A k \in 1..Len(trail) :
        (/\ Consecutive(k, "deleteTask", "getTaskById")
         /\ trail[k].result.kind = "ok"
         /\ trail[k + 1].result.kind # "StorageError")
            => trail[k + 1].result = RetNull

\* C11 witness: deleteTask returned true, getTaskById of the same id then returned
\* null, and another task is still stored
C11_Witness ==
    \E k \in 1..Len(trail) :
        /\ Consecutive(k, "deleteTask", "getTaskById")
        /\ trail[k].result = RetBool(TRUE)
        /\ trail[k + 1].result = RetNull
        /\ StoredTasks # <<>>

\* C12: when the save of a markSubtaskStatus call that found the parent task and the
\* subtask lands, the stored subtask has the requested isComplete and an updatedAt not
\* below its prior one, the stored parent has an updatedAt not below its prior one,
\* and the call returns the stored subtask.
C12_MarkSubtaskStampsBoth ==
    [][\A c \in Contexts :
          (/\ pc[c] = "saving" /\ pc'[c] = "done" /\ fault'[c] = "none"
           /\ call[c].op = "markSubtaskStatus") =>
              LET i == findIndex(StoredTasks, call[c].id)
                  j == findIndex(StoredTasks[i].subtasks, call[c].sid)
                  before == StoredTasks[i]
                  after == getAllTasks(store').val[i]
              IN
              /\ i > 0 /\ j > 0
              /\ after.subtasks[j].isComplete = call[c].flag.v
              /\ after.subtasks[j].updatedAt >= before.subtasks[j].updatedAt
              /\ after.updatedAt >= before.updatedAt
              /\ after.subtasks[j].id = call[c].sid /\ after.id = call[c].id
              /\ result'[c] = RetEntity(after.subtasks[j])]_vars

\* C12 witness: a subtask marked complete at a later time is marked incomplete again
C12_Witness ==
    \E c \in Contexts :
        /\ pc[c] = "done" /\ call[c].op = "markSubtaskStatus" /\ result[c].kind = "ok"
        /\ result[c].val.t = "entity"
        /\ call[c].flag = JsBool(FALSE)
        /\ result[c].val.v.updatedAt > result[c].val.v.createdAt
        /\ \E i \in 1..Len(StoredTasks) :
              /\ StoredTasks[i].id = call[c].id
              /\ StoredTasks[i].subtasks = <<result[c].val.v>>

\* the entities of old other than the one the call names are in new, as they were
\* and in the same order
OthersKept(cl, old, new) ==
    SelectSeq(new, LAMBDA e : e.id # cl.id /\ e.id \in IdsOf(old)) = filterOut(old, cl.id)

\* C13: an operation of TaskManager or NoteManager issues at most one write; the store
\* changes only when that write lands, only under the operation's own key, and then
\* holds the whole collection the operation computed, with every entity the call does
\* not name as it was; a step in which an operation fails leaves the store as it is.
C13_WholeDocumentWrites ==
    [][/\ \A c \in Contexts : io'[c].writes <= 1
       /\ store' # store =>
             \E c \in Contexts :
                 LET k == KeyOf(call[c]) IN
                 /\ pc[c] = "saving" /\ pc'[c] = "done" /\ result'[c].kind = "ok"
                 /\ io[c].writes = 1
                 /\ \A k2 \in StoreKeys \ {k} : store'[k2] = store[k2]
                 /\ store'[k] = Stored(local[c])
                 /\ OthersKept(call[c], store[k].val, store'[k].val)
       /\ \A c \in Contexts :
             (result[c].kind = "none" /\ result'[c].kind \notin {"none", "ok"})
                 => store' = store]_vars

\* C13 witness: the save of an addSubtask was rejected, and the stored parent is still
\* without the subtask, beside another stored task
C13_Witness ==
    \E c \in Contexts :
        /\ pc[c] = "done" /\ call[c].op = "addSubtask" /\ fault[c] # "none"
        /\ io[c].writes = 1
        /\ Len(StoredTasks) = 2 /\ Len(local[c]) = 2
        /\ \E i \in 1..2 :
              /\ StoredTasks[i].id = call[c].id
              /\ StoredTasks[i].subtasks = <<>>
              /\ Len(local[c][i].subtasks) = 1

\* the j-th returned call changed what the key holds
Affects(j, key) ==
    /\ trail[j].result.kind = "ok"
    /\ \/ trail[j].call.op = "clearAll"
       \/ trail[j].call.op \in {"setItem", "removeItem"} /\ trail[j].call.data.key = key
\* the last returned call before the k-th that changed what the key holds, 0 for none
LastChange(k, key) ==
    IF \E j \in 1..(k - 1) : Affects(j, key)
    THEN CHOOSE j \in 1..(k - 1) : Affects(j, key) /\ \A i \in (j + 1)..(k - 1) : ~Affects(i, key)
    ELSE 0
\* what a read of the key that returns as the k-th call is to give
ExpectedItem(k, key, default) ==
    LET j == LastChange(k, key) IN
    IF j > 0 /\ trail[j].call.op = "setItem"
    THEN [present |-> TRUE, val |-> trail[j].call.data.value]
    ELSE default

\* C14: a getItem(key, default) that the store answers returns default when the key
\* was never written or the last change of it was a removeItem or a clearAll, and the
\* value of the last setItem otherwise; getAllTasks and getAllNotes then return the
\* empty sequence, respectively the value last set; a read is never refused because
\* the key holds nothing.
C14_GetItemDefaults ==
    /\ \A k \in 1..Len(trail) :
          LET e == trail[k] IN
          e.result.kind = "ok" =>
              /\ e.call.op = "getItem" =>
                    e.result.val.v = ExpectedItem(k, e.call.data.key, e.call.data.default)
              /\ e.call.op = "getAllTasksItem" =>
                    e.result.val.v = ExpectedItem(k, K_TASKS, [present |-> TRUE, val |-> <<>>])
              /\ e.call.op = "getAllNotesItem" =>
                    e.result.val.v = ExpectedItem(k, K_NOTES, [present |-> TRUE, val |-> <<>>])
    /\ \A c \in Contexts :
          (pc[c] = "done" /\ call[c].op \in SMReads /\ fault[c] = "none")
              => result[c].kind = "ok"

\* C14 witness: a key was set, then removed, and a getItem with a default other than
\* null returned that default
C14_Witness ==
    \E k \in 3..Len(trail) :
        /\ trail[k].call.op = "getItem" /\ trail[k].result.kind = "ok"
        /\ trail[k].call.data.default # NullItem
        /\ trail[k].result.val.v = trail[k].call.data.default
        /\ LastChange(k, trail[k].call.data.key) = k - 1
        /\ trail[k - 1].call.op = "removeItem"
        /\ trail[k - 2].call.op = "setItem" /\ trail[k - 2].result.kind = "ok"
        /\ trail[k - 2].call.data.key = trail[k].call.data.key

\* no call that writes has been issued by the user of the storage layer
NoUserWrite ==
    /\ \A k \in 1..Len(trail) : trail[k].call.op \in SMReads
    /\ \A c \in Contexts : call[c].op \notin SMWrites

\* C15: once the install hook has seeded the empty store and before any user write,
\* getAllTasks and getAllNotes return empty sequences and getSettings returns
\* {theme: 'light', defaultView: 'tasks', notificationsEnabled: true}.
C15_SeededValuesLoad ==
    [][\A c \in Contexts :
          (/\ pc[c] = "calling" /\ pc'[c] = "done" /\ fault'[c] = "none"
           /\ hook.outcome = "seeded" /\ NoUserWrite) =>
              /\ call[c].op = "getAllTasksItem" => result'[c].val.v.val = <<>>
              /\ call[c].op = "getAllNotesItem" => result'[c].val.v.val = <<>>
              /\ call[c].op = "getSettingsItem" => result'[c].val.v.val = DefaultSettings]_vars

\* C16: a run of handleInstalled for 'update' or 'chrome_update' leaves every key of
\* the store as it is; the hook changes the store only for 'install', then exactly the
\* four seeded keys; when that write is rejected the store is unchanged and the hook
\* ends with the failure logged.
C16_OnlyInstallWrites ==
    [][hook' # hook =>
          /\ hook'.reason \in {"update", "chrome_update"} =>
                (store' = store /\ hook'.pc = "done" /\ hook'.outcome # "seeded")
          /\ store' # store =>
                /\ hook'.reason = "install" /\ hook'.outcome = "seeded"
                /\ store' = InstallSeed(store)
          /\ (hook.pc = "writing" /\ hook'.outcome # "seeded") =>
                (store' = store /\ hook'.pc = "done" /\ hook'.outcome = "logged:failed")]_vars

\* C16 witness: the hook ran for 'update' over a store that holds a user's tasks
C16_Witness ==
    /\ hook.pc = "done" /\ hook.reason = "update"
    /\ store[K_TASKS].present /\ store[K_TASKS].val # <<>>
    /\ ~store[B_SETTINGS].present

\* no two refs of the collection carry the same videoId
NoDuplicateVideoIds(videos) ==
    \A i, j \in 1..Len(videos) : videos[i].videoId = videos[j].videoId => i = j

\* an add-video execution in the trail that the store did not refuse, for the video
\* id vid, with no delete-video execution after it
EarlierAdd(i, vid) ==
    /\ trail[i].call.op = "embed"
    /\ isValidUrl(trim(trail[i].call.data.value))
    /\ VideoIdOf(trail[i].call) = vid
    /\ trail[i].result \notin StoreRejections
    /\ \A k \in (i + 1)..Len(trail) : trail[k].call.op # "click-video"

IsCalendarDate(s) ==
    s # BlankText /\ s.sep = "-" /\ s.m \in 1..12 /\ s.d \in 1..DaysInMonth(s.y, s.m)

\* C19: isValidDate(s) is true exactly when s has the form YYYY-MM-DD and denotes an
\* existing calendar date, whatever the local time-zone offset of the environment.
C19_IsValidDateExact ==
    \A c \in Contexts :
        (pc[c] = "done" /\ call[c].op = "isValidDate")
        => result[c] = RetBool(IsCalendarDate(call[c].data.value))

\* the single caller has run createTask, addSubtask, markSubtaskStatus, deleteTask
\* and getTaskById one after the other, and the store has served them all
EndToEnd ==
    /\ Len(trail) = 5
    /\ trail[1].call.op = "createTask"
    /\ \A k \in 1..5 : trail[k].result.kind = "ok"
\* the task createTask returned, and that task as stored when addSubtask returned
CreatedTask == trail[1].result.val.v
ParentAfterAdd == trail[2].doc[findIndex(trail[2].doc, CreatedTask.id)]
\* what the five calls yield, the parent's updatedAt apart
EndToEndResults ==
    /\ trail[1].result.val.t = "entity"
    /\ CreatedTask.isComplete = FALSE /\ CreatedTask.subtasks = <<>>
    /\ findIndex(trail[2].doc, CreatedTask.id) # 0
    /\ Len(ParentAfterAdd.subtasks) = 1
    /\ ParentAfterAdd.subtasks[1] = trail[2].result.val.v
    /\ trail[3].result.val.t = "entity" /\ trail[3].result.val.v.isComplete = TRUE
    /\ trail[4].result = RetBool(TRUE)
    /\ trail[5].result = RetNull

\* C20 as stated: the sequence yields a task with isComplete=false and subtasks=[];
\* a parent with exactly one subtask whose updatedAt differs from the value it had
\* after creation; a subtask with isComplete=true; true; null.
C20_EndToEndUpdatedAtDiffers ==
    EndToEnd => /\ EndToEndResults
                /\ ParentAfterAdd.updatedAt # CreatedTask.updatedAt

\* C20 amended: the same, the parent's updatedAt being the time addSubtask read,
\* which is not below the value after creation (and differs from it only when the
\* clock has advanced between the two calls).
C20_EndToEndUpdatedAtIsCallTime ==
    EndToEnd => /\ EndToEndResults
                /\ ParentAfterAdd.updatedAt = trail[2].result.val.v.createdAt
                /\ ParentAfterAdd.updatedAt >= CreatedTask.updatedAt

\* C20 witness: the five calls have run on a collection that held another task, and
\* addSubtask read the same clock value as createTask
C20_Witness ==
    /\ EndToEnd
    /\ Len(trail[1].doc) >= 2
    /\ ParentAfterAdd.updatedAt = CreatedTask.updatedAt
    /\ trail[5].result = RetNull

\* the ids of a collection, in its order
IdSeq(seq) == [i \in 1..Len(seq) |-> seq[i].id]
\* a save of context c lands in this step
SaveLands(c) == pc[c] = "saving" /\ pc'[c] = "done" /\ fault'[c] = "none"

\* C21: getAllTasks returns the full stored sequence; a landed createTask puts the new
\* task after all the tasks stored before, a landed updateTask, markTaskStatus or
\* subtask operation keeps every task at its position, and a landed deleteTask removes
\* the matching task and keeps the others as they were and in their order.
C21_InsertionOrderKept ==
    [][\A c \in Contexts :
          /\ (pc[c] = "loaded" /\ pc'[c] = "done" /\ call[c].op = "getAllTasks")
                => result'[c] = RetList(StoredTasks)
          /\ (SaveLands(c) /\ call[c].op = "createTask")
                => /\ Len(getAllTasks(store').val) = Len(StoredTasks) + 1
                   /\ SubSeq(getAllTasks(store').val, 1, Len(StoredTasks)) = StoredTasks
                   /\ getAllTasks(store').val[Len(StoredTasks) + 1] = result'[c].val.v
          /\ (SaveLands(c) /\ call[c].op \in {"updateTask", "markTaskStatus", "addSubtask",
                                              "deleteSubtask", "markSubtaskStatus"})
                => IdSeq(getAllTasks(store').val) = IdSeq(StoredTasks)
          /\ (SaveLands(c) /\ call[c].op = "deleteTask")
                => getAllTasks(store').val = filterOut(StoredTasks, call[c].id)]_vars

\* C21 witness: getAllTasks has returned two tasks in the order of their creation after
\* the first of three tasks was deleted
C21_Witness ==
    \E c \in Contexts :
        /\ pc[c] = "done" /\ call[c].op = "getAllTasks"
        /\ result[c].kind = "ok"
        /\ IdSeq(result[c].val.v) = <<2, 3>>
        /\ result[c].val.v = StoredTasks

SameButStatus(old, new) ==
    /\ DOMAIN new = DOMAIN old
    /\ \A f \in DOMAIN old \ {"isComplete", "updatedAt"} : new[f] = old[f]

\* C23: markTaskStatus(id, b) decides and returns what updateTask(id, {isComplete: b})
\* does on the same collection at the same time; when its save lands only isComplete
\* and updatedAt of the matching task differ from the stored state before; and it fails
\* with InvalidInputError when b is not a boolean.
C23_MarkTaskStatusIsUpdate ==
    [][\A c \in Contexts :
          call[c].op = "markTaskStatus" =>
            /\ (pc[c] = "loaded" /\ pc'[c] # "loaded") =>
                  LET u == updateTask(local[c], call[c].id, [isComplete |-> call[c].flag.v], now)
                  IN IF u.write
                     THEN pc'[c] = "saving" /\ local'[c] = u.doc /\ pend'[c] = u.ret
                     ELSE pc'[c] = "done" /\ result'[c] = u.ret /\ store' = store
            /\ SaveLands(c) =>
                  /\ Len(getAllTasks(store').val) = Len(StoredTasks)
                  /\ \A i \in 1..Len(StoredTasks) :
                        IF StoredTasks[i].id = call[c].id
                        THEN /\ SameButStatus(StoredTasks[i], getAllTasks(store').val[i])
                             /\ getAllTasks(store').val[i].isComplete = call[c].flag.v
                        ELSE getAllTasks(store').val[i] = StoredTasks[i]
                  /\ \E i \in 1..Len(StoredTasks) :
                        result'[c] = RetEntity(getAllTasks(store').val[i])
            /\ (pc[c] = "idle" /\ pc'[c] # "idle" /\ ~IsBoolean(call'[c].flag)) =>
                  pc'[c] = "done" /\ result'[c] = Threw("InvalidInputError")]_vars

\* C23 witness: markTaskStatus(id, true) has saved and returned the second of two
\* stored tasks, now complete
C23_Witness ==
    \E c \in Contexts :
        /\ pc[c] = "done" /\ call[c].op = "markTaskStatus" /\ result[c].kind = "ok"
        /\ Len(StoredTasks) = 2
        /\ result[c] = RetEntity(StoredTasks[2])
        /\ StoredTasks[2].isComplete = TRUE
        /\ StoredTasks[1].isComplete = FALSE

\* the fields of a task other than subtasks and updatedAt
SameButSubtasks(old, new) ==
    /\ DOMAIN new = DOMAIN old
    /\ \A f \in DOMAIN old \ {"subtasks", "updatedAt"} : new[f] = old[f]

\* C24: when the parent task exists, addSubtask(taskId, {title}) issues a save, and when
\* the save lands the parent's subtasks are the ones before followed by one new subtask
\* with an id no other subtask of the parent has, the given title, isComplete=false and
\* createdAt=updatedAt=the time the call read; the parent's updatedAt is that time, its
\* other fields and all other tasks are as before, and the new subtask is returned.
C24_AddSubtaskAppends ==
    [][\A c \in Contexts :
          call[c].op = "addSubtask" =>
            /\ (pc[c] = "loaded" /\ pc'[c] # "loaded") =>
                  IF call[c].id \in IdsOf(local[c])
                  THEN /\ pc'[c] = "saving"
                       /\ pend'[c].val.v.createdAt = now
                  ELSE pc'[c] = "done" /\ result'[c] = RetNull
            /\ SaveLands(c) =>
                  LET old == StoredTasks
                      new == getAllTasks(store').val
                      sub == result'[c].val.v
                  IN /\ Len(new) = Len(old)
                     /\ result'[c].val.t = "entity"
                     /\ \A i \in 1..Len(old) :
                           IF old[i].id = call[c].id
                           THEN /\ new[i].subtasks = Append(old[i].subtasks, sub)
                                /\ sub.id \notin IdsOf(old[i].subtasks)
                                /\ new[i].updatedAt = sub.createdAt
                                /\ SameButSubtasks(old[i], new[i])
                           ELSE new[i] = old[i]
                     /\ sub.title = call[c].data.title
                     /\ sub.isComplete = FALSE
                     /\ sub.createdAt = sub.updatedAt
                     /\ sub.createdAt <= now]_vars

\* C24 witness: addSubtask has returned the second subtask of a task, stored after the
\* first one
C24_Witness ==
    \E c \in Contexts :
        /\ pc[c] = "done" /\ call[c].op = "addSubtask" /\ result[c].kind = "ok"
        /\ \E i \in 1..Len(StoredTasks) :
              /\ StoredTasks[i].id = call[c].id
              /\ Len(StoredTasks[i].subtasks) = 2
              /\ RetEntity(StoredTasks[i].subtasks[2]) = result[c]

\* C25: deleteSubtask(taskId, subtaskId) returns true exactly when the parent task
\* exists and holds a subtask with that id; its save then leaves the parent without
\* that subtask, the remaining subtasks in their order, the parent's updatedAt at the
\* time the call read, and every other field and task as before; otherwise it returns
\* false and writes nothing.
C25_DeleteSubtaskExact ==
    [][\A c \in Contexts :
          call[c].op = "deleteSubtask" =>
            /\ (pc[c] = "loaded" /\ pc'[c] # "loaded") =>
                  IF \E i \in 1..Len(local[c]) :
                        local[c][i].id = call[c].id /\ call[c].sid \in IdsOf(local[c][i].subtasks)
                  THEN /\ pc'[c] = "saving" /\ pend'[c] = RetBool(TRUE)
                       /\ \A i \in 1..Len(local[c]) :
                             local[c][i].id = call[c].id => local'[c][i].updatedAt = now
                  ELSE pc'[c] = "done" /\ result'[c] = RetBool(FALSE) /\ store' = store
            /\ SaveLands(c) =>
                  LET old == StoredTasks
                      new == getAllTasks(store').val
                  IN /\ result'[c] = RetBool(TRUE)
                     /\ Len(new) = Len(old)
                     /\ \A i \in 1..Len(old) :
                           IF old[i].id = call[c].id
                           THEN /\ new[i].subtasks = filterOut(old[i].subtasks, call[c].sid)
                                /\ Len(new[i].subtasks) < Len(old[i].subtasks)
                                /\ new[i].updatedAt = local[c][i].updatedAt
                                /\ SameButSubtasks(old[i], new[i])
                           ELSE new[i] = old[i]]_vars

\* C25 witness: deleteSubtask has returned true for the first of two subtasks, and the
\* stored parent holds the second one only
C25_Witness ==
    \E c \in Contexts :
        /\ pc[c] = "done" /\ call[c].op = "deleteSubtask" /\ result[c] = RetBool(TRUE)
        /\ \E i \in 1..Len(StoredTasks) :
              /\ StoredTasks[i].id = call[c].id
              /\ Len(StoredTasks[i].subtasks) = 1
              /\ StoredTasks[i].subtasks[1].id > call[c].sid

\* C26: updateNote(id, newData) on a stored note keeps the note's id whatever newData
\* carries, puts the other fields of newData over the note's, sets updatedAt to the
\* time the call read, saves, returns the merged note and leaves every other note as
\* it was and where it was; it returns null, writing nothing, when no note has the id.
\* deleteNote(id) returns true exactly when a note with the id was stored, and its
\* save holds the other notes only.
C26_NoteUpdateAndDelete ==
    [][\A c \in Contexts :
          /\ call[c].op = "updateNote" =>
               /\ (pc[c] = "loaded" /\ pc'[c] # "loaded") =>
                     IF call[c].id \in IdsOf(local[c])
                     THEN /\ pc'[c] = "saving"
                          /\ pend'[c].val.v.updatedAt = now
                     ELSE pc'[c] = "done" /\ result'[c] = RetNull /\ store' = store
               /\ SaveLands(c) =>
                     LET old == StoredNotes
                         new == getAllNotes(store').val
                         given == DOMAIN Props(call[c].data) \ {"id", "updatedAt"}
                     IN /\ Len(new) = Len(old)
                        /\ \A i \in 1..Len(old) :
                              IF old[i].id = call[c].id
                              THEN /\ new[i].id = old[i].id
                                   /\ \A f \in given : new[i][f] = call[c].data[f]
                                   /\ \A f \in DOMAIN old[i] \ (given \cup {"updatedAt"}) :
                                         new[i][f] = old[i][f]
                                   /\ DOMAIN new[i] = DOMAIN old[i] \cup given
                                   /\ result'[c] = RetEntity(new[i])
                              ELSE new[i] = old[i]
          /\ call[c].op = "deleteNote" =>
               /\ (pc[c] = "loaded" /\ pc'[c] # "loaded") =>
                     IF call[c].id \in IdsOf(local[c])
                     THEN pc'[c] = "saving" /\ pend'[c] = RetBool(TRUE)
                     ELSE pc'[c] = "done" /\ result'[c] = RetBool(FALSE) /\ store' = store
               /\ SaveLands(c) =>
                     /\ result'[c] = RetBool(TRUE)
                     /\ getAllNotes(store').val = filterOut(StoredNotes, call[c].id)
                     /\ call[c].id \notin IdsOf(getAllNotes(store').val)]_vars

\* C26 witness: updateNote with data carrying another id has returned the first of two
\* stored notes, with its own id, the new title and a later updatedAt
C26_Witness ==
    \E c \in Contexts :
        /\ pc[c] = "done" /\ call[c].op = "updateNote" /\ result[c].kind = "ok"
        /\ Len(StoredNotes) = 2
        /\ result[c] = RetEntity(StoredNotes[1])
        /\ StoredNotes[1].id = call[c].id
        /\ call[c].data.id # call[c].id
        /\ StoredNotes[1].title = call[c].data.title
        /\ StoredNotes[1].updatedAt > StoredNotes[1].createdAt

\* C27: every StorageManager operation (getItem, setItem, removeItem, clearAll) that has
\* ended has returned its value or failed with a StorageError whose originalError is
\* the failure of the chrome.storage.local call; no other error leaves the layer.
C27_StorageLayerWrapsFailures ==
    \A c \in Contexts :
        (pc[c] = "done" /\ call[c].op \in SMReads \cup SMWrites)
        => \/ result[c].kind = "ok"
           \/ /\ result[c].kind = "StorageError"
              /\ result[c].originalError = fault[c]

\* C28: no operation replaces an immutable field: whatever partialFields updateTask is
\* given, also one that carries createdAt, every task a landed save keeps has the
\* createdAt it had in the store before, which is the value createTask set.
C28_CreatedAtNeverChanges ==
    [][\A c \in Contexts :
          (SaveLands(c) /\ IsTM(call[c])) =>
             \A i \in 1..Len(StoredTasks), j \in 1..Len(getAllTasks(store').val) :
                 getAllTasks(store').val[j].id = StoredTasks[i].id
                 => getAllTasks(store').val[j].createdAt = StoredTasks[i].createdAt]_vars

\* C29: a SET_TASKS or SET_NOTES message whose data is not an array, a SET_SETTINGS
\* message whose data is not a non-null object, and a message with no type or an
\* unknown type, is answered with status 'error' in the step that delivers it, never
\* reaches a call of the store, and leaves the store unchanged.
RefusedMessage(msg) ==
    \/ msg.type \in {"SET_TASKS", "SET_NOTES"} /\ msg.data.kind # "array"
    \/ msg.type = "SET_SETTINGS" /\ msg.data.kind \in {"null", "string"}
    \/ msg.type \in {MissingType, "PING"}
C29_InvalidMessagesRefused ==
    [][\A c \in Contexts :
         (call'[c].op = "handleMessage" /\ RefusedMessage(call'[c].data)) =>
            /\ pc'[c] # "awaiting"
            /\ pc[c] = "idle" =>
                 /\ pc'[c] = "done"
                 /\ result'[c].val.status = "error"
                 /\ store' = store]_vars
C29_Witness ==
    \E c \in Contexts :
        /\ pc[c] = "done"
        /\ call[c].op = "handleMessage"
        /\ call[c].data.type = "SET_SETTINGS"
        /\ call[c].data.data.kind = "null"
        /\ result[c].val.status = "error"
        /\ store[B_TASKS].present

\* the stored video collection, empty while nothing is stored
StoredVideos == IF store[K_UNDEFINED].present THEN store[K_UNDEFINED].val ELSE <<>>

\* C30: an embed of a valid YouTube URL whose video id is not yet stored, its read
\* served by the store, goes on to save the stored collection with exactly one
\* VideoRef {fresh id, videoId, timestamp} appended to it.
C30_NewVideoStored ==
    [][\A h \in Handlers :
         (/\ hpc[h] = "vloading" /\ hcall[h].op = "embed"
          /\ hpc'[h] # "vloading"
          /\ hout'[h] \notin StoreRejections
          /\ \A i \in DOMAIN StoredVideos : StoredVideos[i].videoId # VideoIdOf(hcall[h]))
         => /\ hpc'[h] = "vsaving"
            /\ hlocal'[h].val = Append(StoredVideos, newVideo(VideoIdOf(hcall[h]), nextId, now))]_vars

\* C31: once the install hook has seeded the store, a task submission in the popup
\* whose read the store serves loads a collection, so that the handler goes on to
\* save the collection with the new task appended and does not end in its failure
\* branch for want of a collection.
C31_SubmitAfterSeedLoadsCollection ==
    [][\A h \in Handlers :
         (/\ hook.outcome = "seeded"
          /\ hcall[h].op = "submit"
          /\ hpc[h] = "loading" /\ hpc'[h] = "loaded")
         => hlocal'[h].present]_vars

\* C32: the components share one key per collection: while the only tasks collection
\* in the store is the one the background wrote (by SET_TASKS or by the install
\* hook), a served read of TaskManager.getAllTasks loads exactly that sequence, and
\* likewise NoteManager.getAllNotes the notes the background wrote.
C32_OneKeyPerCollection ==
    [][\A c \in Contexts :
         (pc[c] = "loading" /\ pc'[c] = "loaded") =>
            /\ (call[c].op = "getAllTasks" /\ store[B_TASKS].present /\ ~store[K_TASKS].present)
                  => local'[c] = store[B_TASKS].val
            /\ (call[c].op = "getAllNotes" /\ store[B_NOTES].present /\ ~store[K_NOTES].present)
                  => local'[c] = store[B_NOTES].val]_vars

\* C33: NoteManager.init goes on to write the empty notes collection only when the
\* store holds no note at the time init looks, so that its write never replaces
\* stored notes that were there when it looked.
C33_InitWritesOnlyWhenNoNotes ==
    [][\A c \in Contexts :
         (call[c].op = "init" /\ pc[c] = "initloading" /\ pc'[c] = "initsaving")
         => StoredNotes = <<>>]_vars

\* the operation returned null or false
NotFoundResult(r) ==
    /\ r.kind = "ok"
    /\ \/ r.val.t = "null"
       \/ r.val.t = "bool" /\ r.val.v = FALSE

\* C34: a TaskManager or NoteManager operation that ends with a not-found result
\* (null or false) has issued no write, and the step in which it ends leaves the
\* store, every task's subtasks and updatedAt included, as it was.
C34_NotFoundWritesNothing ==
    [][\A c \in Contexts :
         (/\ pc[c] # "done" /\ pc'[c] = "done"
          /\ call[c].op \in TMOps \cup NMOps
          /\ NotFoundResult(result'[c]))
         => /\ io'[c].writes = 0
            /\ store' = store]_vars
\* C34 witness: deleteSubtask of an unknown subtask id on a stored task that has
\* subtasks returned false
C34_Witness ==
    \E c \in Contexts :
        /\ pc[c] = "done" /\ fault[c] = "none"
        /\ call[c].op = "deleteSubtask" /\ result[c] = RetBool(FALSE)
        /\ call[c].id \in IdsOf(StoredTasks) /\ call[c].sid # NoId
        /\ SubtaskIdsOf(StoredTasks, call[c].id) # {}
        /\ io[c].writes = 0

\* deleteTask(id) of context c has returned true and c has not gone on yet
DeletedBy(c) ==
    /\ pc[c] = "done" /\ call[c].op = "deleteTask"
    /\ result[c].kind = "ok" /\ result[c].val.t = "bool" /\ result[c].val.v

\* C35 as stated: once deleteTask(id) has returned true, the stored tasks collection
\* holds no task with that id, whatever the other contexts do.
C35_DeletedNeverReturns ==
    \A c \in Contexts : DeletedBy(c) => call[c].id \notin IdsOf(StoredTasks)

\* C35 amended: the save of a deleteTask(id) that returns true leaves no task with
\* that id in the store, and afterwards a task with that id enters the store again
\* only by the save of another context that had loaded the collection before a save
\* it did not see landed (last-writer-wins on the whole document).
C35_DeletedReturnsOnlyByStaleSave ==
    [][\A c \in Contexts :
         /\ (pc[c] = "saving" /\ DeletedBy(c)')
               => call[c].id \notin IdsOf(StoredTasks')
         /\ (DeletedBy(c) /\ call[c].id \notin IdsOf(StoredTasks)
                          /\ call[c].id \in IdsOf(StoredTasks'))
               => \E d \in Contexts \ {c} :
                     pc[d] = "saving" /\ pc'[d] = "done" /\ missed[d].stale]_vars
\* C35 witness: deleteTask returned true, and the task is back in the store by the
\* save of an updateTask that had loaded the collection before the delete landed
C35_Witness ==
    \E c \in Contexts, d \in Contexts :
        /\ c # d /\ DeletedBy(c)
        /\ pc[d] = "done" /\ call[d].op = "updateTask" /\ call[d].id = call[c].id
        /\ missed[d].stale /\ fault[d] = "none"
        /\ call[c].id \in IdsOf(StoredTasks)

\* C36: with the clock never going back and one caller, every stored task has
\* createdAt <= updatedAt, every stored subtask has createdAt <= updatedAt, and no
\* subtask's updatedAt exceeds the updatedAt of its task.
C36_TimestampsOrdered ==
    \A i \in DOMAIN StoredTasks :
        LET task == StoredTasks[i] IN
        /\ task.createdAt <= task.updatedAt
        /\ \A j \in DOMAIN task.subtasks :
              /\ task.subtasks[j].createdAt <= task.subtasks[j].updatedAt
              /\ task.subtasks[j].updatedAt <= task.updatedAt
\* C36 witness: markSubtaskStatus has stamped a subtask and its task at a time after
\* both were created
C36_Witness ==
    \E c \in Contexts :
        /\ pc[c] = "done" /\ fault[c] = "none" /\ call[c].op = "markSubtaskStatus"
        /\ \E i \in DOMAIN StoredTasks :
              /\ StoredTasks[i].id = call[c].id
              /\ StoredTasks[i].createdAt < StoredTasks[i].updatedAt
              /\ \E j \in DOMAIN StoredTasks[i].subtasks :
                    /\ StoredTasks[i].subtasks[j].id = call[c].sid
                    /\ StoredTasks[i].subtasks[j].createdAt < StoredTasks[i].subtasks[j].updatedAt
                    /\ StoredTasks[i].subtasks[j].updatedAt = StoredTasks[i].updatedAt

\* C37: a save from the options page leaves every field of the stored settings other
\* than theme with the value it had, and the options page loaded on a store without
\* saved settings shows the default theme 'light'.
C37_OptionsSaveAndDefaultTheme ==
    [][\A h \in Handlers :
         /\ (hpc[h] = "osaving" /\ hout'[h] = "Settings saved!")
               => \A p \in getSettings(store).val :
                     p[1] # "theme" => p \in getSettings(store').val
         /\ (hpc[h] = "oloading" /\ hpc'[h] = "done" /\ hout'[h] # "logged"
                /\ ~store[K_SETTINGS].present)
               => hout'[h] = "theme-light"]_vars

\* C38: every message delivered to the background handler is answered: once the
\* handler has run to its end, sendResponse has been called with a response, the
\* port to the sender was open for it, and a store operation that failed is
\* answered with status 'error'.
C38_EveryMessageAnswered ==
    \A c \in Contexts :
        (pc[c] = "done" /\ call[c].op = "handleMessage") =>
            /\ result[c].kind = "ok"
            /\ pend[c] = Port("open")
            /\ fault[c] # "none" => result[c].val.status = "error"

\* C39: whenever showLoading is the most recent of the showLoading / hideLoading
\* calls on the initialized system, the loading indicator is visible: the class
\* loading-hidden is absent and aria-busy is true.
C39_ShownWhileLoading ==
    (loading.made /\ loading.last = "show") => (~loading.hidden /\ loading.busy)

====
